---------------------------- MODULE Spec2Model ----------------------------
(***************************************************************************)
(* A model of the point-sampling and recharge-classification core of the   *)
(* repository (core/raster_ops.py, core/analysis.py,                       *)
(* core/indicators/esg_risk_scoring.py, tools/mini_diagnostics_app.py).    *)
(*                                                                         *)
(* Numbers.  Python floats are modelled as integers; the recharge          *)
(* classifier's inputs and thresholds are fixed-point tenths (150 mm is    *)
(* 1500, a slope of 4.9 % is 49).  A value is a record [k, v]: k = "num"   *)
(* for a number v, "nan" for float('nan'), "none" for None and "str" for   *)
(* an object float() cannot convert.                                       *)
(*                                                                         *)
(* The program is a library: the state is the call in progress (call), its *)
(* outcome (ret) and the caller's position (pc).  Every operation is one   *)
(* action taken from pc = "idle" with its inputs drawn from bounded sets;  *)
(* Return hands the outcome back to the caller.                            *)
(*                                                                         *)
(* A reader is the dataset or its reprojecting view (WarpedVRT), which     *)
(* carries the source's nodata; resampling itself is not modelled, so the  *)
(* cells are those of the view.  An operator commented "wrong version" is  *)
(* a deliberately wrong variant of the operator that follows it, kept to   *)
(* show that the properties depend on the code.                            *)
(***************************************************************************)
EXTENDS Integers, Sequences, FiniteSets, TLC

VARIABLES pc, call, ret

vars == <<pc, call, ret>>

---------------------------------------------------------------------------
(* Values *)

Num(n) == [k |-> "num", v |-> n]

NaN == [k |-> "nan", v |-> 0]

None == [k |-> "none", v |-> 0]

Str == [k |-> "str", v |-> 0]

IsNum(x) == x.k = "num"

\* np.isnan(v)
IsNaN(x) == x.k = "nan"

\* the missing marker of the samplers is Python's None
IsMissing(x) == x.k = "none"

\* float(x) inside try/except: a float, or None when float() raises
ToFloatOrNone(x) == IF x.k \in {"none", "str"} THEN None ELSE x

\* Python's == on floats: NaN equals nothing, not even itself
FloatEq(x, y) == IsNum(x) /\ IsNum(y) /\ x.v = y.v

---------------------------------------------------------------------------
(* Recharge classification: core/analysis.py *)

\* thresholds of tools/self_check.py, in tenths
DefaultThr == [hi_awc |-> 1500, hi_slope |-> 50, med_awc |-> 500, med_slope |-> 150]

\* wrong version: the High capacity test made inclusive
ClassifyRechargeStrictLost(awc_mm, slope_percent, thr) ==
  LET a == ToFloatOrNone(awc_mm)
      s == ToFloatOrNone(slope_percent)
  IN  IF IsMissing(a) \/ IsMissing(s) \/ IsNaN(a) \/ IsNaN(s) THEN "Low"
      ELSE IF a.v >= thr.hi_awc /\ s.v < thr.hi_slope THEN "High"
      ELSE IF a.v >= thr.med_awc \/ s.v <= thr.med_slope THEN "Medium"
      ELSE "Low"

\* wrong version: no early return for missing inputs; each comparison
\* guards its own operand
ClassifyRechargeNoGuard(awc_mm, slope_percent, thr) ==
  LET a == ToFloatOrNone(awc_mm)
      s == ToFloatOrNone(slope_percent)
      an == IsNum(a)
      sn == IsNum(s)
  IN  IF an /\ sn /\ a.v > thr.hi_awc /\ s.v < thr.hi_slope THEN "High"
      ELSE IF (an /\ a.v >= thr.med_awc) \/ (sn /\ s.v <= thr.med_slope) THEN "Medium"
      ELSE "Low"

\* classify_recharge(awc_mm, slope_percent, thr) of the UI pages
\* (pages/00_Water_Screening.py, memo_app.py): no conversion and no early
\* return; every comparison is guarded by "is not None" only, so NaN
\* fails each comparison and an object that is no number raises TypeError
ClassifyRechargePage(awc_mm, slope_percent, thr) ==
  LET an == ~IsMissing(awc_mm)
      sn == ~IsMissing(slope_percent)
      raises(x) == x.k = "str"
      gt(x, y) == IsNum(x) /\ x.v > y
      ge(x, y) == IsNum(x) /\ x.v >= y
      lt(x, y) == IsNum(x) /\ x.v < y
      le(x, y) == IsNum(x) /\ x.v <= y
  IN  IF raises(awc_mm) THEN "TypeError"
      ELSE IF an /\ gt(awc_mm, thr.hi_awc) /\ raises(slope_percent) THEN "TypeError"
      ELSE IF an /\ gt(awc_mm, thr.hi_awc) /\ sn /\ lt(slope_percent, thr.hi_slope) THEN "High"
      ELSE IF an /\ ge(awc_mm, thr.med_awc) THEN "Medium"
      ELSE IF raises(slope_percent) THEN "TypeError"
      ELSE IF sn /\ le(slope_percent, thr.med_slope) THEN "Medium"
      ELSE "Low"

\* the two pages that define classify_recharge
Pages == {"pages/00_Water_Screening.py", "memo_app.py"}

\* wrong version: a capacity above the High edge no longer counts for
\* "Medium"
ClassifyRechargeBanded(awc_mm, slope_percent, thr) ==
  LET a == ToFloatOrNone(awc_mm)
      s == ToFloatOrNone(slope_percent)
  IN  IF IsMissing(a) \/ IsMissing(s) \/ IsNaN(a) \/ IsNaN(s) THEN "Low"
      ELSE IF a.v > thr.hi_awc /\ s.v < thr.hi_slope THEN "High"
      ELSE IF (a.v >= thr.med_awc /\ a.v <= thr.hi_awc) \/ s.v <= thr.med_slope THEN "Medium"
      ELSE "Low"

\* _classify_recharge(awc_mm, slope_percent, thr)
ClassifyRecharge(awc_mm, slope_percent, thr) ==
  LET a == ToFloatOrNone(awc_mm)
      s == ToFloatOrNone(slope_percent)
  IN  IF IsMissing(a) \/ IsMissing(s) \/ IsNaN(a) \/ IsNaN(s) THEN "Low"
      ELSE IF a.v > thr.hi_awc /\ s.v < thr.hi_slope THEN "High"
      ELSE IF a.v >= thr.med_awc \/ s.v <= thr.med_slope THEN "Medium"
      ELSE "Low"

---------------------------------------------------------------------------
(* Rasters and points *)

\* raster size in pixels (reader.height, reader.width)
Height == 4

Width == 4

\* coordinate units per pixel of a north-up raster (transform.a, -transform.e)
PixelSize == 2

\* longest point sequence handed to a sampler
MaxPts == 2

Rows == 0..(Height - 1)

Cols == 0..(Width - 1)

Cells == Rows \X Cols

\* the number a nodata cell holds
NoDataNum == Num(-1)

\* an ordinary cell: elevation rising along rows and columns
BaseCell(rc) == Num(2 * rc[1] + rc[2] + 1)

\* One cell of a raster may be special: holding the nodata number, holding
\* NaN, or lying in a block whose read raises (an I/O error).
Specials ==
  {[at |-> rc, kind |-> kd] : rc \in Cells, kd \in {"nodata", "nan", "bad"}}
    \cup {[at |-> <<-1, -1>>, kind |-> "plain"]}

\* what the file declares as nodata: nothing, the nodata number, or NaN
NodataDecls == {None, NoDataNum, NaN}

\* rot: a transform with a = e = 0 and b, d # 0 (axes swapped), which is
\* invertible although its pixel width and height terms are zero
MkRaster(sp, nd, rot) ==
  [cells |-> [rc \in Cells |->
                IF rc = sp.at /\ sp.kind = "nodata" THEN NoDataNum
                ELSE IF rc = sp.at /\ sp.kind = "nan" THEN NaN
                ELSE BaseCell(rc)],
   bad |-> IF sp.kind = "bad" THEN {sp.at} ELSE {},
   nodata |-> nd,
   rot |-> rot]

Rasters == {MkRaster(sp, nd, rot) : sp \in Specials, nd \in NodataDecls, rot \in BOOLEAN}

\* y coordinate of the raster's upper edge
Top == Height * PixelSize

\* a point inside pixel (row, col) of a north-up raster
Pt(row, col) == [lon |-> col * PixelSize + 1, lat |-> Top - row * PixelSize - 1]

\* points outside, on the corner, on the edge and inside the raster
Points ==
  {Pt(-1, 1), [lon |-> 0, lat |-> Top], Pt(1, 1), Pt(Height - 2, Width - 2),
   Pt(Height - 1, Width - 1), Pt(1, Width), [lon |-> Width * PixelSize, lat |-> 0]}

PointSeqs(n) == UNION {[1..k -> Points] : k \in 0..n}

\* reader.index(lon, lat) / rowcol(transform, x, y): floor of the inverse
\* transform, <<row, col>>
Index(reader, pt) ==
  IF reader.rot
    THEN <<pt.lon \div PixelSize, (Top - pt.lat) \div PixelSize>>
    ELSE <<(Top - pt.lat) \div PixelSize, pt.lon \div PixelSize>>

InRaster(rc) == rc[1] \in Rows /\ rc[2] \in Cols

---------------------------------------------------------------------------
(* Point sampling: core/raster_ops.py *)

Raised == [status |-> "raise", vals |-> <<>>]

Ok(vals) == [status |-> "ok", vals |-> vals]

\* wrong version: no NaN test
MaskNodataKeepsNaN(val, nodata) ==
  IF IsMissing(val) THEN None
  ELSE IF IsMissing(nodata) THEN val
  ELSE IF FloatEq(val, nodata) THEN None
  ELSE val

\* _mask_nodata(val, nodata)
MaskNodata(val, nodata) ==
  IF IsMissing(val) THEN None
  ELSE LET v == ToFloatOrNone(val)
       IN  IF IsMissing(v) THEN None
           ELSE IF IsMissing(nodata) THEN v
           ELSE IF IsNaN(v) THEN None
           ELSE IF FloatEq(v, nodata) THEN None
           ELSE v

\* One value of reader.sample(coords).  The call is rasterio's
\* DatasetReader.sample: for a pixel outside the extent it yields, without
\* reading, an array filled with "dataset.nodata or 0"; for a pixel inside
\* it reads the 1x1 window of the cell, which raises on an I/O error.  The
\* samplers of raster_ops.py make no bounds test of their own.
ReaderSample(reader, pt) ==
  LET rc == Index(reader, pt)
  IN  IF ~InRaster(rc)
        THEN [raise |-> FALSE,
              v |-> IF IsMissing(reader.nodata) THEN Num(0) ELSE reader.nodata]
      ELSE IF rc \in reader.bad THEN [raise |-> TRUE, v |-> None]
      ELSE [raise |-> FALSE, v |-> reader.cells[rc]]

\* wrong version: a masked value is not appended
RECURSIVE MaskedSamplesSkipMissing(_, _, _, _)
MaskedSamplesSkipMissing(reader, coords, nodata, vals) ==
  IF coords = <<>> THEN Ok(vals)
  ELSE LET s == ReaderSample(reader, Head(coords))
           m == MaskNodata(s.v, nodata)
       IN  IF s.raise THEN Raised
           ELSE MaskedSamplesSkipMissing(reader, Tail(coords), nodata,
                  IF IsMissing(m) THEN vals ELSE Append(vals, m))

\* the loop "for v in reader.sample(coords): vals.append(_mask_nodata(...))"
RECURSIVE MaskedSamples(_, _, _, _)
MaskedSamples(reader, coords, nodata, vals) ==
  IF coords = <<>> THEN Ok(vals)
  ELSE LET s == ReaderSample(reader, Head(coords))
       IN  IF s.raise THEN Raised
           ELSE MaskedSamples(reader, Tail(coords), nodata,
                              Append(vals, MaskNodata(s.v, nodata)))

\* batch_extract_elevation(reader, coords_lonlat, src_nodata)
BatchExtractElevation(reader, coords, src_nodata) ==
  MaskedSamples(reader, coords, src_nodata, <<>>)

\* sample_raster_at_points(gdf, raster_path): masks with the file's nodata
SampleRasterAtPoints(coords, src) ==
  MaskedSamples(src, coords, src.nodata, <<>>)

\* The src_nodata argument each caller of the DEM samplers passes:
\* run_analysis passes src.nodata, the diagnostics app passes nothing.
Callers == {"run_analysis", "mini_diagnostics"}

SrcNodataArg(caller, src) == IF caller = "run_analysis" THEN src.nodata ELSE None

\* run_analysis samples every point of the table, the diagnostics app one
CallerCoords(caller) ==
  IF caller = "run_analysis" THEN PointSeqs(MaxPts) ELSE [1..1 -> Points]

---------------------------------------------------------------------------
(* 3x3 Horn slope: core/raster_ops.py *)

\* metres per coordinate unit along a meridian (mlat)
MLat == 2

Abs(n) == IF n < 0 THEN -n ELSE n

\* m_per_deg(lat) = <<mlat, mlon>>: mlon = mlat * cos(lat) shrinks away from
\* the equator and, as a float cosine, never reaches zero
MPerDeg(lat) == <<MLat, IF Abs(lat) > PixelSize THEN MLat - 1 ELSE MLat>>

RECURSIVE ISqrtIn(_, _, _)
ISqrtIn(n, lo, hi) ==
  IF lo >= hi THEN lo
  ELSE LET mid == (lo + hi + 1) \div 2
       IN  IF mid * mid <= n THEN ISqrtIn(n, mid, hi) ELSE ISqrtIn(n, lo, mid - 1)

\* floor of the square root
ISqrt(n) == ISqrtIn(n, 0, 46340)

Win == (0..2) \X (0..2)

\* r0 < 0 or c0 < 0 or r0 + 3 > reader.height or c0 + 3 > reader.width
WindowOutside(r0, c0) == r0 < 0 \/ c0 < 0 \/ r0 + 3 > Height \/ c0 + 3 > Width

\* reader.read(1, window=Window(c0, r0, 3, 3)).astype(float): raises when a
\* block of the window cannot be read
ReadWindow(reader, r0, c0) ==
  IF \E ij \in Win : <<r0 + ij[1], c0 + ij[2]>> \in reader.bad
    THEN [raise |-> TRUE, z |-> [ij \in Win |-> None]]
    ELSE [raise |-> FALSE, z |-> [ij \in Win |-> reader.cells[<<r0 + ij[1], c0 + ij[2]>>]]]

\* wrong version of the window read, for SlopeAtPartialWindow
Clamp(n, hi) == IF n < 0 THEN 0 ELSE IF n > hi THEN hi ELSE n

\* a window read that repeats the edge cells outside the raster
ReadWindowClamped(reader, r0, c0) ==
  [raise |-> FALSE,
   z |-> [ij \in Win |->
            reader.cells[<<Clamp(r0 + ij[1], Height - 1), Clamp(c0 + ij[2], Width - 1)>>]]]

\* The body of the loop after the window was read: the nodata test, the
\* pixel size in metres, the degenerate test and Horn's operator:
\* 100 * sqrt(dzdx^2 + dzdy^2) with dzdx = nx / (8 dx_m), dzdy = ny / (8 dy_m),
\* kept to whole percent.  Arithmetic on a NaN cell gives NaN.
SlopeFromWindow(reader, z, lat, src_nodata) ==
  LET dx_deg == IF reader.rot THEN 0 ELSE PixelSize
      dy_deg == IF reader.rot THEN 0 ELSE PixelSize
      dx_m == dx_deg * MPerDeg(lat)[2]
      dy_m == dy_deg * MPerDeg(lat)[1]
      nx == (z[<<0, 2>>].v + 2 * z[<<1, 2>>].v + z[<<2, 2>>].v)
              - (z[<<0, 0>>].v + 2 * z[<<1, 0>>].v + z[<<2, 0>>].v)
      ny == (z[<<2, 0>>].v + 2 * z[<<2, 1>>].v + z[<<2, 2>>].v)
              - (z[<<0, 0>>].v + 2 * z[<<0, 1>>].v + z[<<0, 2>>].v)
  IN  IF ~IsMissing(src_nodata) /\ \E ij \in Win : FloatEq(z[ij], src_nodata) THEN None
      ELSE IF dx_m = 0 \/ dy_m = 0 THEN None
      ELSE IF \E ij \in Win : IsNaN(z[ij]) THEN NaN
      ELSE Num(ISqrt(10000 * (nx * nx * dy_m * dy_m + ny * ny * dx_m * dx_m))
                 \div (8 * dx_m * dy_m))

\* wrong version: an edge pixel is estimated from a partial window
SlopeAtPartialWindow(reader, pt, src_nodata) ==
  LET rc == Index(reader, pt)
      r0 == rc[1] - 1
      c0 == rc[2] - 1
  IN  IF ~InRaster(rc) THEN [raise |-> FALSE, v |-> None]
      ELSE [raise |-> FALSE,
            v |-> SlopeFromWindow(reader, ReadWindowClamped(reader, r0, c0).z,
                                  pt.lat, src_nodata)]

\* the try block of the loop for one point: a value, or an exception
SlopeAt(reader, pt, src_nodata) ==
  LET rc == Index(reader, pt)
      r0 == rc[1] - 1
      c0 == rc[2] - 1
  IN  IF WindowOutside(r0, c0) THEN [raise |-> FALSE, v |-> None]
      ELSE LET win == ReadWindow(reader, r0, c0)
           IN  IF win.raise THEN [raise |-> TRUE, v |-> None]
               ELSE [raise |-> FALSE,
                     v |-> SlopeFromWindow(reader, win.z, pt.lat, src_nodata)]

\* wrong version: no try/except around the body
RECURSIVE SlopeLoopNoExcept(_, _, _, _)
SlopeLoopNoExcept(reader, coords, src_nodata, out) ==
  IF coords = <<>> THEN Ok(out)
  ELSE LET s == SlopeAt(reader, Head(coords), src_nodata)
       IN  IF s.raise THEN Raised
           ELSE SlopeLoopNoExcept(reader, Tail(coords), src_nodata, Append(out, s.v))

\* the loop over coords_lonlat: "except Exception: out.append(None)"
RECURSIVE SlopeLoop(_, _, _, _)
SlopeLoop(reader, coords, src_nodata, out) ==
  IF coords = <<>> THEN Ok(out)
  ELSE LET s == SlopeAt(reader, Head(coords), src_nodata)
       IN  SlopeLoop(reader, Tail(coords), src_nodata,
                     Append(out, IF s.raise THEN None ELSE s.v))

\* batch_slope_percent_3x3(reader, coords_lonlat, src_nodata)
BatchSlopePercent3x3(reader, coords, src_nodata) ==
  SlopeLoop(reader, coords, src_nodata, <<>>)

---------------------------------------------------------------------------
(* Multi-raster sampling: core/indicators/esg_risk_scoring.py *)

\* One point of one dataset: the cell read from the whole band when the
\* pixel lies inside, the caller's nodata sentinel when it lies outside or
\* when anything raises (ds.read(1) reads every block of the band).
SampleOneOrNodata(ds, pt, nodata) ==
  LET rc == Index(ds, pt)
  IN  IF InRaster(rc)
        THEN IF ds.bad # {} THEN nodata ELSE ds.cells[rc]
        ELSE nodata

RECURSIVE SampleColumn(_, _, _, _)
SampleColumn(ds, points, nodata, vals) ==
  IF points = <<>> THEN Ok(vals)
  ELSE SampleColumn(ds, Tail(points), nodata,
                    Append(vals, SampleOneOrNodata(ds, Head(points), nodata)))

\* sample_rasters_at_points(rasters, points, x_col, y_col, nodata), for the
\* column of one dataset of the mapping
SampleRastersAtPoints(ds, points, nodata) == SampleColumn(ds, points, nodata, <<>>)

\* the sentinels a caller passes
Sentinels == {NoDataNum, Num(0)}

---------------------------------------------------------------------------
(* Screening run: core/analysis.py, core/clc_vector.py *)

\* the CRS a file declares: none, the canonical one, or another one
NoCrs == "none"

Wgs84 == "EPSG:4326"

OtherCrs == "EPSG:3035"

\* src.crs and src.crs.to_string() != "EPSG:4326"
NeedsWarp(crs) == crs # NoCrs /\ crs # Wgs84

\* An input file as run_analysis is handed one: no path at all, a raster
\* file or a vector file.  opens: whether the open succeeds; warp: the
\* file's CRS is set and is not EPSG:4326, so it is read through a
\* WarpedVRT (ds is the grid the reader presents in EPSG:4326).
NoFile == [kind |-> "none"]

RasterFile(opens, warp, ds) ==
  [kind |-> "raster", opens |-> opens, warp |-> warp, ds |-> ds,
   crs |-> IF warp THEN OtherCrs ELSE Wgs84]

\* a raster file that opens, by the CRS it declares
RasterFileIn(crs, ds) ==
  [kind |-> "raster", opens |-> TRUE, warp |-> NeedsWarp(crs), ds |-> ds, crs |-> crs]

\* the candidate names of the code field, in the order they are tried
CLC_CODE_FIELDS ==
  <<"CODE_18", "CLC_CODE", "CLC_CODE18", "code_18", "CODE", "CLC_CODE_18">>

\* a column of the layer: its name and the kind of its dtype
Column(name, kind) == [name |-> name, kind |-> kind]

RECURSIVE FirstCandidate(_, _)
FirstCandidate(fields, columns) ==
  IF fields = <<>> THEN "none"
  ELSE IF \E i \in 1..Len(columns) : columns[i].name = Head(fields) THEN Head(fields)
  ELSE FirstCandidate(Tail(fields), columns)

RECURSIVE FirstNumeric(_)
FirstNumeric(columns) ==
  IF columns = <<>> THEN "none"
  ELSE IF Head(columns).kind \in {"i", "u", "f"} THEN Head(columns).name
  ELSE FirstNumeric(Tail(columns))

\* _pick_code_field(gdf): a candidate name, else the first numeric column,
\* else None
PickCodeField(columns) ==
  IF FirstCandidate(CLC_CODE_FIELDS, columns) # "none"
    THEN FirstCandidate(CLC_CODE_FIELDS, columns)
    ELSE FirstNumeric(columns)

\* polys: the features of the layer, each covering a set of pixels of the
\* grid of the layer's own CRS and carrying code, its value in the field
\* _pick_code_field selects
VectorFile(opens, crs, columns, polys) ==
  [kind |-> "vector", opens |-> opens, crs |-> crs, columns |-> columns, polys |-> polys]

\* result of a stage: status, values, and the handles it left open;
\* right_crs: the CRS of the features a spatial join was run against
StageRaised(open) ==
  [status |-> "raise", vals |-> <<>>, open |-> open, right_crs |-> "unjoined"]

StageOk(vals, open) ==
  [status |-> "ok", vals |-> vals, open |-> open, right_crs |-> "unjoined"]

\* a stage that ended with a spatial join
StageJoined(vals, right_crs) ==
  [status |-> "ok", vals |-> vals, open |-> {}, right_crs |-> right_crs]

\* The reader a raster file is sampled through: the dataset itself, or,
\* when NeedsWarp, a WarpedVRT to EPSG:4326 created with the given
\* resampling and src_nodata=src.nodata.  crs is the CRS declared by what
\* the reader hands out.
ReaderView(f, resampling) ==
  IF NeedsWarp(f.crs)
    THEN [view |-> "vrt", crs |-> Wgs84, resampling |-> resampling,
          src_nodata |-> f.ds.nodata]
    ELSE [view |-> "src", crs |-> f.crs, resampling |-> "none",
          src_nodata |-> f.ds.nodata]

\* no reader: the open raised
NoReader == [view |-> "none", crs |-> NoCrs, resampling |-> "none", src_nodata |-> None]

\* open_reader_wgs84(path): rasterio.open raises when the file cannot be
\* opened; nothing else is tested
OpenReaderWgs84(f) ==
  IF f.kind # "raster" \/ ~f.opens
    THEN [status |-> "raise", reader |-> NoReader]
    ELSE [status |-> "ok", reader |-> ReaderView(f, "bilinear")]

\* the reader of sample_raster_at_points(gdf, raster_path), lines 88-92
SampleReader(f) == ReaderView(f, "nearest")

\* sample_raster_at_points(gdf, raster_path) from the path on: the with
\* block closes src on every path, the WarpedVRT is closed by the last
\* statement of the block only
SampleRasterFile(coords, f, name) ==
  IF f.kind # "raster" \/ ~f.opens THEN StageRaised({})
  ELSE LET r == SampleRasterAtPoints(coords, f.ds)
       IN  IF r.status = "raise"
             THEN StageRaised(IF f.warp THEN {<<name, "vrt">>} ELSE {})
             ELSE StageOk(r.vals, {})

\* pixel of the grid a point falls in
PixelAt(pt) == <<(Top - pt.lat) \div PixelSize, pt.lon \div PixelSize>>

\* _norm(v) of load_clc_vector_bbox: int(v), NaN for None, NaN and
\* anything int() rejects
NormCode(v) == IF IsNum(v) THEN v ELSE NaN

\* rows of the left join for one point: one per intersecting feature, one
\* NaN row when there is none
RECURSIVE JoinPoint(_, _)
JoinPoint(pt, polys) ==
  IF polys = <<>> THEN <<>>
  ELSE (IF PixelAt(pt) \in Head(polys).cover
          THEN <<NormCode(Head(polys).code)>> ELSE <<>>)
       \o JoinPoint(pt, Tail(polys))

\* gpd.sjoin(points, clc, how="left", predicate="intersects")["CLC_CODE"]
RECURSIVE SJoinLeft(_, _)
SJoinLeft(coords, polys) ==
  IF coords = <<>> THEN <<>>
  ELSE LET hits == JoinPoint(Head(coords), polys)
       IN  (IF hits = <<>> THEN <<NaN>> ELSE hits) \o SJoinLeft(Tail(coords), polys)

\* features read with the bounding box of the points (padding is below
\* one pixel): those covering a pixel of the box.  The box is handed over
\* in the coordinates of the points and the features are compared in the
\* coordinates they are stored in.
InBBox(coords, poly) ==
  \E i \in 1..Len(coords), j \in 1..Len(coords), rc \in poly.cover :
    LET a == PixelAt(coords[i])
        b == PixelAt(coords[j])
    IN  /\ (a[1] <= rc[1] /\ rc[1] <= b[1]) \/ (b[1] <= rc[1] /\ rc[1] <= a[1])
        /\ (a[2] <= rc[2] /\ rc[2] <= b[2]) \/ (b[2] <= rc[2] /\ rc[2] <= a[2])

\* assign_clc_code_to_points(points_wgs84, clc_path), with
\* load_clc_vector_bbox(clc_path, points_wgs84, simplify_tol_m=0.0): the
\* layer is read and its code field renamed and normalised; it is
\* converted to another CRS in the simplify branch only, which 0.0 skips
AssignClcCodeToPoints(coords, f) ==
  IF f.kind # "vector" \/ ~f.opens THEN StageRaised({})
  ELSE LET clc == SelectSeq(f.polys, LAMBDA p : InBBox(coords, p))
       IN  IF clc = <<>> THEN StageOk([i \in 1..Len(coords) |-> NaN], {})
           ELSE IF f.crs = NoCrs \/ PickCodeField(f.columns) = "none" THEN StageRaised({})
           ELSE StageJoined(SJoinLeft(coords, clc), f.crs)

\* what pandas stores for a list of floats and None: NaN for None as soon
\* as the list holds a float
ToColumn(vals) ==
  IF \E i \in 1..Len(vals) : ~IsMissing(vals[i])
    THEN [i \in 1..Len(vals) |-> IF IsMissing(vals[i]) THEN NaN ELSE vals[i]]
    ELSE vals

\* Series.isna()
IsNa(x) == IsMissing(x) \/ IsNaN(x)

RunRaised(tag, est, open) ==
  [status |-> "raise", tag |-> tag, rows |-> <<>>, est |-> est, open |-> open]

\* the optional water_use_m3y column of the points table
NoWaterUse == [present |-> FALSE, col |-> <<>>]

WaterUse(col) == [present |-> TRUE, col |-> col]

\* Series.fillna(0)
FillNa0(x) == IF IsNa(x) THEN Num(0) ELSE x

\* wrong version: an entry that is no number counts as 0
WaterStressFlagsNoFallback(classes, water_use) ==
  [i \in 1..Len(classes) |->
     /\ water_use.present
     /\ classes[i] = "Low"
     /\ IsNum(FillNa0(water_use.col[i]))
     /\ FillNa0(water_use.col[i]).v > 0]

\* lines 142-149: astype(float) raises when an entry of the column cannot
\* be converted, and the except branch flags every "Low" row
WaterStressFlags(classes, water_use) ==
  IF ~water_use.present THEN [i \in 1..Len(classes) |-> FALSE]
  ELSE IF \E i \in 1..Len(classes) : FillNa0(water_use.col[i]).k = "str"
    THEN [i \in 1..Len(classes) |-> classes[i] = "Low"]
  ELSE [i \in 1..Len(classes) |->
          classes[i] = "Low" /\ FillNa0(water_use.col[i]).v > 0]

\* lines 121-155: the table of the run; assigning a list whose length is
\* not the table's raises ValueError
Assemble(n, elevs, slopes, awc_vals, clc_vals, thr, slope_file, est, water_use) ==
  IF Len(elevs) # n \/ Len(slopes) # n \/ Len(awc_vals) # n \/ Len(clc_vals) # n
    THEN RunRaised("none", est, {})
    ELSE LET classes == [i \in 1..n |-> ClassifyRecharge(awc_vals[i], slopes[i], thr)]
         IN  [status |-> "ok", tag |-> "none", est |-> est, open |-> {},
              rows |-> [i \in 1..n |->
                [elevation_m |-> ToColumn(elevs)[i],
                 slope_percent |-> ToColumn(slopes)[i],
                 awc_mm |-> ToColumn(awc_vals)[i],
                 land_cover_code |-> ToColumn(clc_vals)[i],
                 recharge_class |-> classes[i],
                 slope_quality_flag |->
                   IF slope_file.kind # "none" THEN "precomputed" ELSE "approx",
                 water_stress_flag |-> WaterStressFlags(classes, water_use)[i],
                 dem_nodata_flag |-> IsNa(elevs[i]),
                 awc_nodata_flag |-> IsNa(awc_vals[i])]]]

\* stage 3, lines 111-119
ClcStage(coords, clc_file) ==
  IF clc_file.kind = "none" THEN StageRaised({})
  ELSE IF clc_file.kind = "raster" THEN SampleRasterFile(coords, clc_file, "clc")
  ELSE AssignClcCodeToPoints(coords, clc_file)

\* stage 2, lines 105-108
AwcStage(coords, awc_file) ==
  IF awc_file.kind = "none" THEN StageOk([i \in 1..Len(coords) |-> None], {})
  ELSE SampleRasterFile(coords, awc_file, "awc")

\* wrong version: the estimator runs although a slope file is supplied
SlopesOfAlwaysEstimated(coords, dem_file, slope_file) ==
  [r |-> LET s == BatchSlopePercent3x3(dem_file.ds, coords, dem_file.ds.nodata)
         IN  [status |-> s.status, vals |-> s.vals, open |-> {}],
   est |-> TRUE]

\* the slope line of stage 1, line 97; est: the 3x3 estimator was invoked
SlopesOf(coords, dem_file, slope_file) ==
  IF slope_file.kind # "none"
    THEN [r |-> SampleRasterFile(coords, slope_file, "slope"), est |-> FALSE]
    ELSE [r |-> LET s == BatchSlopePercent3x3(dem_file.ds, coords, dem_file.ds.nodata)
                IN  [status |-> s.status, vals |-> s.vals, open |-> {}],
          est |-> TRUE]

\* handles open_reader_wgs84(dem_file) returns
DemHandles(dem_file) ==
  {<<"dem", "src">>} \cup (IF dem_file.warp THEN {<<"dem", "vrt">>} ELSE {})

\* stage 1, lines 95-102: open, slopes, elevations, close.  The two close
\* calls are the last statements of the try block.
DemStage(coords, dem_file, slope_file) ==
  IF dem_file.kind # "raster" \/ ~dem_file.opens
    THEN [status |-> "raise", slopes |-> <<>>, elevs |-> <<>>, est |-> FALSE, open |-> {}]
  ELSE LET stage(sl, el) ==
             IF sl.r.status = "raise"
               THEN [status |-> "raise", slopes |-> <<>>, elevs |-> <<>>, est |-> sl.est,
                     open |-> DemHandles(dem_file) \cup sl.r.open]
             ELSE IF el.status = "raise"
               THEN [status |-> "raise", slopes |-> <<>>, elevs |-> <<>>, est |-> sl.est,
                     open |-> DemHandles(dem_file)]
             ELSE [status |-> "ok", slopes |-> sl.r.vals, elevs |-> el.vals,
                   est |-> sl.est, open |-> {}]
       IN  stage(SlopesOf(coords, dem_file, slope_file),
                 BatchExtractElevation(dem_file.ds, coords, dem_file.ds.nodata))

\* the readers a run creates, in order: a stage is entered when the ones
\* before it succeeded, and a reader exists once its file was opened
ReadersOf(coords, dem_file, awc_file, clc_file, slope_file) ==
  LET reader(layer, f, r) ==
        IF f.kind = "raster" /\ f.opens THEN <<[layer |-> layer, reader |-> r]>> ELSE <<>>
      readers(dem_ok, awc_ok) ==
        (IF dem_file.kind = "raster" /\ dem_file.opens
           THEN reader("dem", dem_file, OpenReaderWgs84(dem_file).reader)
                \o reader("slope", slope_file, SampleReader(slope_file))
           ELSE <<>>)
        \o (IF dem_ok THEN reader("awc", awc_file, SampleReader(awc_file)) ELSE <<>>)
        \o (IF dem_ok /\ awc_ok
              THEN reader("clc", clc_file, SampleReader(clc_file)) ELSE <<>>)
  IN  readers(DemStage(coords, dem_file, slope_file).status = "ok",
              AwcStage(coords, awc_file).status = "ok")

\* the outcome of a run together with the readers it created
WithReaders(r, readers) ==
  [status |-> r.status, tag |-> r.tag, rows |-> r.rows, est |-> r.est, open |-> r.open,
   readers |-> readers]

\* wrong version: a failing stage hands back the table built so far
RunAnalysisPartial(points_gdf, dem_file, awc_file, clc_file, thr, slope_file) ==
  LET run(coords, dem, awc, clc, n, nones, wu) ==
        WithReaders(
          IF dem.status = "raise" THEN RunRaised("dem_slope_elev", dem.est, dem.open)
          ELSE IF awc.status = "raise"
            THEN [Assemble(n, dem.elevs, dem.slopes, nones, nones, thr, slope_file,
                           dem.est, wu)
                    EXCEPT !.status = "raise", !.tag = "awc_sample", !.open = awc.open]
          ELSE IF clc.status = "raise"
            THEN [Assemble(n, dem.elevs, dem.slopes, awc.vals, nones, thr, slope_file,
                           dem.est, wu)
                    EXCEPT !.status = "raise", !.tag = "clc", !.open = clc.open]
          ELSE Assemble(n, dem.elevs, dem.slopes, awc.vals, clc.vals, thr, slope_file,
                        dem.est, wu),
          ReadersOf(coords, dem_file, awc_file, clc_file, slope_file))
  IN  run(points_gdf.coords, DemStage(points_gdf.coords, dem_file, slope_file),
          AwcStage(points_gdf.coords, awc_file), ClcStage(points_gdf.coords, clc_file),
          Len(points_gdf.coords), [i \in 1..Len(points_gdf.coords) |-> None],
          points_gdf.water_use)

\* run_analysis(points_gdf, dem_file, awc_file, clc_file, thresholds,
\* slope_file): the stages in order, each wrapped into a RuntimeError that
\* carries its tag; the exception is all the caller receives.  points_gdf
\* is the geometry column (coords) and the optional water_use_m3y column.
RunAnalysis(points_gdf, dem_file, awc_file, clc_file, thr, slope_file) ==
  LET run(coords, dem, awc, clc) ==
        WithReaders(
          IF dem.status = "raise" THEN RunRaised("dem_slope_elev", dem.est, dem.open)
          ELSE IF awc.status = "raise" THEN RunRaised("awc_sample", dem.est, awc.open)
          ELSE IF clc.status = "raise" THEN RunRaised("clc", dem.est, clc.open)
          ELSE Assemble(Len(coords), dem.elevs, dem.slopes, awc.vals, clc.vals, thr,
                        slope_file, dem.est, points_gdf.water_use),
          ReadersOf(coords, dem_file, awc_file, clc_file, slope_file))
  IN  run(points_gdf.coords, DemStage(points_gdf.coords, dem_file, slope_file),
          AwcStage(points_gdf.coords, awc_file), ClcStage(points_gdf.coords, clc_file))

\* the files and points the run is exercised with
AtCell(kind) == MkRaster([at |-> <<1, 1>>, kind |-> kind], NoDataNum, FALSE)

PlainDs == MkRaster([at |-> <<-1, -1>>, kind |-> "plain"], NoDataNum, FALSE)

Unopenable == RasterFile(FALSE, FALSE, PlainDs)

DemFiles ==
  {Unopenable, RasterFile(TRUE, FALSE, PlainDs), RasterFile(TRUE, TRUE, PlainDs),
   RasterFile(TRUE, TRUE, AtCell("bad")), RasterFile(TRUE, FALSE, AtCell("nodata")),
   RasterFileIn(NoCrs, PlainDs)}

SlopeFiles ==
  {NoFile, Unopenable, RasterFile(TRUE, FALSE, PlainDs), RasterFile(TRUE, TRUE, AtCell("bad"))}

AwcFiles ==
  {NoFile, RasterFile(TRUE, FALSE, PlainDs), RasterFile(TRUE, FALSE, AtCell("nodata")),
   RasterFile(TRUE, TRUE, AtCell("bad")), RasterFile(TRUE, TRUE, PlainDs)}

Everywhere(code) == [cover |-> Cells, code |-> code]

\* a feature covering one pixel
Only(rc, code) == [cover |-> {rc}, code |-> code]

\* layers with a candidate code field, with a numeric field only, and
\* with no usable field
CodeColumns == <<Column("OBJECTID", "O"), Column("CODE_18", "O")>>

NumericColumns == <<Column("NAME", "O"), Column("AREA_HA", "f")>>

NoCodeColumns == <<Column("NAME", "O")>>

VectorFiles ==
  {VectorFile(FALSE, Wgs84, CodeColumns, <<>>),
   VectorFile(TRUE, Wgs84, CodeColumns, <<>>),
   VectorFile(TRUE, Wgs84, CodeColumns, <<Everywhere(Num(312))>>),
   VectorFile(TRUE, NoCrs, CodeColumns, <<Everywhere(Num(312))>>),
   VectorFile(TRUE, Wgs84, NoCodeColumns, <<Everywhere(Num(312))>>),
   VectorFile(TRUE, Wgs84, CodeColumns, <<Everywhere(None), Only(<<1, 1>>, Num(211))>>),
   VectorFile(TRUE, Wgs84, NumericColumns, <<Only(<<1, 1>>, Num(7))>>),
   VectorFile(TRUE, Wgs84, NoCodeColumns, <<Only(<<1, 1>>, Num(312))>>),
   VectorFile(TRUE, OtherCrs, CodeColumns, <<Only(<<1, 1>>, Num(312))>>)}

ClcFiles ==
  {NoFile, RasterFile(TRUE, FALSE, PlainDs), RasterFile(TRUE, TRUE, AtCell("bad"))}
    \cup VectorFiles

\* files for open_reader_wgs84: every CRS with every nodata declaration
OpenFiles ==
  {Unopenable} \cup
  {RasterFileIn(crs, MkRaster([at |-> <<-1, -1>>, kind |-> "plain"], nd, FALSE)) :
     crs \in {NoCrs, Wgs84, OtherCrs}, nd \in NodataDecls}

RunPoints == {Pt(-1, 1), Pt(1, 1), Pt(Height - 2, Width - 2)}

RunCoords == UNION {[1..k -> RunPoints] : k \in 0..MaxPts}

\* the water-use column of a table of n rows: absent, numbers, or missing
\* entries next to text that is no number
WaterUseCols(n) ==
  {NoWaterUse,
   WaterUse([i \in 1..n |-> IF i % 2 = 1 THEN Num(5) ELSE Num(0)]),
   WaterUse([i \in 1..n |-> IF i % 2 = 1 THEN NaN ELSE Str])}

RunThrs == {DefaultThr, [hi_awc |-> 5, hi_slope |-> 60, med_awc |-> 3, med_slope |-> 120]}

---------------------------------------------------------------------------
(* Diagnostic command line: tools/self_check.py *)

\* sys.argv as a sequence: the program name, then the arguments.  A number
\* is a token float() accepts, a word one it rejects; a path token is the
\* file found at the path.
Prog == [t |-> "prog"]

Word == [t |-> "word"]

Number(n) == [t |-> "num", v |-> n]

Path(f) == [t |-> "path", file |-> f]

\* the process ends with an exit status; an exception nothing catches ends
\* it with a traceback and status 1
Exit(code, printed) == [exit |-> code, uncaught |-> FALSE, printed |-> printed]

Uncaught(exc) == [exit |-> 1, uncaught |-> TRUE, printed |-> exc]

\* main() under sys.exit(main()); argv[k + 1] is Python's sys.argv[k]
SelfCheckMain(argv) ==
  IF Len(argv) < 5 THEN Exit(1, "usage")
  ELSE IF argv[2].t # "num" \/ argv[3].t # "num" THEN Uncaught("ValueError")
  ELSE IF Len(argv) < 6 THEN Uncaught("IndexError")
  ELSE LET slope == IF Len(argv) > 6 THEN argv[7].file ELSE NoFile
           gdf == [coords |-> <<[lon |-> argv[3].v, lat |-> argv[2].v]>>,
                   water_use |-> NoWaterUse]
           out == RunAnalysis(gdf, argv[4].file, argv[5].file, argv[6].file, DefaultThr,
                              slope)
       IN  IF out.status = "ok" THEN Exit(0, "row") ELSE Exit(2, "FAILED")

\* command lines: every prefix of a full one, with a number or a word for
\* each coordinate
FullArgvs ==
  {<<Prog, lat, lon, Path(dem), Path(awc), Path(clc), Path(slope)>> :
     lat \in {Number(pt.lat) : pt \in RunPoints} \cup {Word},
     lon \in {Number(3), Word},
     dem \in {Unopenable, RasterFile(TRUE, FALSE, PlainDs), RasterFile(TRUE, TRUE, AtCell("bad"))},
     awc \in {Unopenable, RasterFile(TRUE, FALSE, PlainDs)},
     clc \in {RasterFile(TRUE, FALSE, PlainDs)} \cup VectorFiles,
     slope \in {Unopenable, RasterFile(TRUE, FALSE, PlainDs)}}

Argvs == {SubSeq(full, 1, n) : full \in FullArgvs, n \in 1..7}

---------------------------------------------------------------------------
(* Threshold classification: core/indicators/esg_risk_scoring.py *)

\* Indicator numbers are counted in thirds: a multiple of F32Step is a
\* number single precision holds exactly, any other stands for a double
\* that single precision cannot hold (0.7, say).
F32Step == 3

W(n) == F32Step * n

\* astype("float32"): the nearest number single precision holds
F32(x) ==
  IF ~IsNum(x) THEN x
  ELSE LET q == x.v \div F32Step
           r == x.v % F32Step
       IN  Num(IF 2 * r < F32Step THEN q * F32Step ELSE (q + 1) * F32Step)

\* the sentinel every pipeline passes (nodata = -9999.0)
PipelineNodata == Num(W(-9999))

\* the int16 classes returned, or the ValueError of np.digitize
Classes(c) == [status |-> "ok", classes |-> c]

ClassifyRaised == [status |-> "raise", classes |-> <<>>]

\* ThresholdDef(bins, labels)
ThresholdDef(bins, nlabels) == [bins |-> bins, labels |-> [i \in 1..nlabels |-> "label"]]

Increasing(bins) == \A i \in 1..(Len(bins) - 1) : bins[i] <= bins[i + 1]

Decreasing(bins) == \A i \in 1..(Len(bins) - 1) : bins[i] >= bins[i + 1]

\* np.digitize(v, bins, right=False) for monotonic bins: the index i with
\* bins[i-1] <= v < bins[i] (increasing) or bins[i-1] > v >= bins[i]
\* (decreasing); NaN sorts after every number
Digitize(v, bins) ==
  IF IsNaN(v) THEN IF Increasing(bins) THEN Len(bins) ELSE 0
  ELSE IF Increasing(bins) THEN Cardinality({j \in 1..Len(bins) : bins[j] <= v.v})
  ELSE Cardinality({j \in 1..Len(bins) : bins[j] > v.v})

\* arr != nodata, elementwise: NaN differs from everything
Differs(x, nodata) == IsNaN(x) \/ IsNaN(nodata) \/ x # nodata

\* classify_indicator(arr, thr, nodata); np.digitize raises ValueError
\* for bins that are not monotonic
ClassifyIndicator(arr, thr, nodata) ==
  LET mask == [i \in 1..Len(arr) |-> Differs(arr[i], nodata)]
  IN  IF \A i \in 1..Len(arr) : ~mask[i] THEN Classes([i \in 1..Len(arr) |-> 0])
      ELSE IF ~Increasing(thr.bins) /\ ~Decreasing(thr.bins) THEN ClassifyRaised
      ELSE Classes([i \in 1..Len(arr) |->
                 IF mask[i] THEN Digitize(F32(arr[i]), thr.bins) + 1 ELSE 0])

\* classify_points(df, thresholds, nodata), for the column of one
\* indicator: the column is cast to float32 before it is compared
ClassifyPoints(col, thr, nodata) ==
  LET vals == [i \in 1..Len(col) |-> F32(col[i])]
      mask == [i \in 1..Len(col) |-> Differs(vals[i], F32(nodata))]
  IN  IF \A i \in 1..Len(col) : ~mask[i] THEN Classes([i \in 1..Len(col) |-> 0])
      ELSE IF ~Increasing(thr.bins) /\ ~Decreasing(thr.bins) THEN ClassifyRaised
      ELSE Classes([i \in 1..Len(col) |->
                 IF mask[i] THEN Digitize(vals[i], thr.bins) + 1 ELSE 0])

\* load_thresholds(path): the tables of a document, taken as written
\* (neither the order of the edges nor the number of labels is checked)
ThresholdDefs ==
  {ThresholdDef(<<W(10), W(20), W(30)>>, 4),
   ThresholdDef(<<7, 20>>, 3),
   ThresholdDef(<<W(10), W(20), W(30)>>, 2),
   ThresholdDef(<<W(30), W(20)>>, 3),
   ThresholdDef(<<W(20), W(10), W(30)>>, 4),
   ThresholdDef(<<>>, 1)}

\* values on and beside every edge, the sentinel and NaN
CellValues(thr) ==
  {Num(thr.bins[j] + d) : j \in 1..Len(thr.bins), d \in {-F32Step, -1, 0, 1, F32Step}}
    \cup {PipelineNodata, NaN, Num(W(5)), Num(W(35))}

---------------------------------------------------------------------------
(* Site score: core/indicators/esg_risk_scoring.py *)

RECURSIVE GCD(_, _)
GCD(a, b) == IF b = 0 THEN a ELSE GCD(b, a % b)

\* a float that is a ratio of integers, in lowest terms (rounding of the
\* last bit is left out)
Frac(n, d) == LET g == GCD(Abs(n), d) IN [n |-> n \div g, d |-> d \div g]

FracAdd(x, y) == Frac(x.n * y.d + y.n * x.d, x.d * y.d)

FracMul(x, y) == Frac(x.n * y.n, x.d * y.d)

\* x / y for y > 0
FracDiv(x, y) == Frac(x.n * y.d, x.d * y.n)

\* float("nan") as a score
ScoreNaN == [n |-> 0, d |-> 0]

RECURSIVE SumSeq(_)
SumSeq(s) == IF s = <<>> THEN 0 ELSE Head(s) + SumSeq(Tail(s))

\* arr[mask] for mask = arr > 0
Positive(arr) == SelectSeq(arr, LAMBDA c : c > 0)

\* float(arr[mask].mean())
MeanClass(arr) == Frac(SumSeq(Positive(arr)), Len(Positive(arr)))

\* w = 1.0, or float(weights[name]) "if weights and name in weights"
WeightOf(name, weights) ==
  IF name \in DOMAIN weights THEN Frac(weights[name], 1) ELSE Frac(1, 1)

NoScores == [means |-> <<>>, total_weight |-> Frac(0, 1), composite |-> Frac(0, 1)]

\* wrong version: a layer without classified cells still adds its weight
RECURSIVE ScoreLoopCountsEmpty(_, _, _)
ScoreLoopCountsEmpty(layers, weights, acc) ==
  IF layers = <<>> THEN acc
  ELSE LET name == Head(layers).name
           arr == Head(layers).arr
           w == WeightOf(name, weights)
       IN  IF Positive(arr) = <<>>
             THEN ScoreLoopCountsEmpty(Tail(layers), weights,
                    [acc EXCEPT !.total_weight = FracAdd(@, w)])
             ELSE ScoreLoopCountsEmpty(Tail(layers), weights,
                    [means |-> Append(acc.means, [name |-> name, mean |-> MeanClass(arr)]),
                     total_weight |-> FracAdd(acc.total_weight, w),
                     composite |-> FracAdd(acc.composite, FracMul(w, MeanClass(arr)))])

\* the loop of aggregate_site_score over classified_layers.items()
RECURSIVE ScoreLoop(_, _, _)
ScoreLoop(layers, weights, acc) ==
  IF layers = <<>> THEN acc
  ELSE LET name == Head(layers).name
           arr == Head(layers).arr
           w == WeightOf(name, weights)
       IN  IF Positive(arr) = <<>> THEN ScoreLoop(Tail(layers), weights, acc)
           ELSE ScoreLoop(Tail(layers), weights,
                  [means |-> Append(acc.means, [name |-> name, mean |-> MeanClass(arr)]),
                   total_weight |-> FracAdd(acc.total_weight, w),
                   composite |-> FracAdd(acc.composite, FracMul(w, MeanClass(arr)))])

\* aggregate_site_score(classified_layers, weights): the "<name>_mean_class"
\* entries in order and the "composite_score" entry
AggregateSiteScore(layers, weights) ==
  LET acc == ScoreLoop(layers, weights, NoScores)
  IN  [status |-> "ok",
       means |-> acc.means,
       composite_score |->
         IF acc.total_weight.n > 0 THEN FracDiv(acc.composite, acc.total_weight)
         ELSE ScoreNaN]

\* the indicators a pipeline classifies, in the order it builds the mapping
LayerNames == <<"runoff_coefficient", "erosion_potential", "recharge_index">>

\* classes a cell can hold (0: missing)
ClassSamples == {0, 1, 3}

\* weights: none, or a mapping of some indicator names to weights
WeightMaps ==
  {<<>>,
   [x \in {"runoff_coefficient"} |-> 2],
   [x \in {"runoff_coefficient", "erosion_potential"} |->
      IF x = "runoff_coefficient" THEN 3 ELSE 1],
   [x \in {"erosion_potential"} |-> 0],
   [x \in {"recharge_index", "flood_susceptibility"} |-> 5]}

---------------------------------------------------------------------------
(* Indicators: core/indicators/hydrology.py, erosion.py, recharge.py,
   fragmentation.py *)

\* An indicator array is a raster of one row, a sequence of cells.  Input
\* cells are numbers in the layer's unit; cells of a normalised or of an
\* indicator array are thousandths, so the nodata sentinel in such an array
\* is a thousand times the sentinel.
Milli(nodata) == Num(1000 * nodata.v)

\* a / b rounded to the nearest integer, for a >= 0 and b > 0
RoundDiv(a, b) == (2 * a + b) \div (2 * b)

Clip(x) == IF x < 0 THEN 0 ELSE IF x > 1000 THEN 1000 ELSE x

SetMax(S) == CHOOSE x \in S : \A y \in S : y <= x

SetMin(S) == CHOOSE x \in S : \A y \in S : x <= y

RECURSIVE Insert(_, _)
Insert(x, s) ==
  IF s = <<>> THEN <<x>>
  ELSE IF x <= Head(s) THEN <<x>> \o s
  ELSE <<Head(s)>> \o Insert(x, Tail(s))

RECURSIVE Sorted(_)
Sorted(s) == IF s = <<>> THEN <<>> ELSE Insert(Head(s), Sorted(Tail(s)))

\* indices of the cells that differ from the sentinel
Valid(arr, nodata) == {i \in 1..Len(arr) : arr[i] # nodata}

\* the numbers of the valid cells, in order
Data(arr, nodata) ==
  LET pick == SelectSeq(arr, LAMBDA c : c # nodata)
  IN  [i \in 1..Len(pick) |-> pick[i].v]

\* 100 * np.nanpercentile(data, 2) and 100 * np.nanpercentile(data, 98),
\* linear interpolation between the two lowest and the two highest values
\* (up to 50 values)
Pct2(data) ==
  LET s == Sorted(data) n == Len(data)
  IN  IF n = 1 THEN 100 * s[1] ELSE 100 * s[1] + 2 * (n - 1) * (s[2] - s[1])

Pct98(data) ==
  LET s == Sorted(data) n == Len(data)
  IN  IF n = 1 THEN 100 * s[1]
      ELSE 100 * s[n - 1] + (100 - 2 * (n - 1)) * (s[n] - s[n - 1])

\* _normalise(arr, nodata, vmin, vmax)
Normalise(arr, nodata, vmin, vmax) ==
  IF Valid(arr, nodata) = {} THEN [i \in 1..Len(arr) |-> Milli(nodata)]
  ELSE LET data == Data(arr, nodata)
           lo == IF IsNum(vmin) THEN 100 * vmin.v ELSE Pct2(data)
           hi == IF IsNum(vmax) THEN 100 * vmax.v ELSE Pct98(data)
       IN  [i \in 1..Len(arr) |->
              IF i \notin Valid(arr, nodata) THEN Milli(nodata)
              ELSE IF hi <= lo THEN Num(0)
              ELSE IF 100 * arr[i].v <= lo THEN Num(0)
              ELSE IF 100 * arr[i].v >= hi THEN Num(1000)
              ELSE Num(RoundDiv(1000 * (100 * arr[i].v - lo), hi - lo))]

Between(c, lo, hi) == c.v >= lo /\ c.v <= hi

\* wrong version: the factor is assigned without the validity mask
LandCoverRunoffFactorNoMask(lc, nodata) ==
  [i \in 1..Len(lc) |->
     IF Between(lc[i], 511, 523) THEN Num(500)
     ELSE IF Between(lc[i], 321, 335) THEN Num(400)
     ELSE IF Between(lc[i], 311, 313) THEN Num(200)
     ELSE IF Between(lc[i], 211, 244) THEN Num(600)
     ELSE IF Between(lc[i], 111, 142) THEN Num(900)
     ELSE Num(500)]

\* land_cover_runoff_factor(lc, nodata); the groups do not overlap
LandCoverRunoffFactor(lc, nodata) ==
  [i \in 1..Len(lc) |->
     IF lc[i] = nodata THEN Milli(nodata)
     ELSE IF Between(lc[i], 511, 523) THEN Num(500)
     ELSE IF Between(lc[i], 321, 335) THEN Num(400)
     ELSE IF Between(lc[i], 311, 313) THEN Num(200)
     ELSE IF Between(lc[i], 211, 244) THEN Num(600)
     ELSE IF Between(lc[i], 111, 142) THEN Num(900)
     ELSE Num(500)]

\* the float32 array an indicator returns
Indicator(c) == [status |-> "ok", cells |-> c]

\* runoff_coefficient(HydroInputs(slope_deg, awc_mm, land_cover, nodata))
RunoffCoefficient(slope_deg, awc_mm, land_cover, nodata) ==
  LET slope_n == Normalise(slope_deg, nodata, Num(0), Num(35))
      awc_n == Normalise(awc_mm, nodata, None, None)
      awc_inv == [i \in 1..Len(awc_n) |->
                    IF awc_n[i] # Milli(nodata) THEN Num(1000 - awc_n[i].v)
                    ELSE Milli(nodata)]
      lc_factor == LandCoverRunoffFactor(land_cover, nodata)
      mask == {i \in 1..Len(slope_deg) :
                 /\ slope_n[i] # Milli(nodata)
                 /\ awc_inv[i] # Milli(nodata)
                 /\ lc_factor[i] # Milli(nodata)}
  IN  Indicator([i \in 1..Len(slope_deg) |->
         IF i \in mask
           THEN Num(Clip(RoundDiv(4 * slope_n[i].v + 3 * awc_inv[i].v + 3 * lc_factor[i].v, 10)))
           ELSE Milli(nodata)])

\* flood_susceptibility(runoff, nodata, flow_acc)
FloodSusceptibility(runoff, nodata, flow_acc) ==
  LET mask == {i \in 1..Len(runoff) : runoff[i] # Milli(nodata)}
  IN  IF mask = {} THEN Indicator([i \in 1..Len(runoff) |-> Milli(nodata)])
      ELSE IF ~flow_acc.given
        THEN Indicator([i \in 1..Len(runoff) |-> IF i \in mask THEN runoff[i] ELSE Milli(nodata)])
      ELSE LET facc_n == Normalise(flow_acc.arr, nodata, None, None)
               comb_mask == {i \in mask : facc_n[i] # Milli(nodata)}
           IN  Indicator([i \in 1..Len(runoff) |->
                  IF i \in comb_mask
                    THEN Num(Clip(RoundDiv(6 * runoff[i].v + 4 * facc_n[i].v, 10)))
                  ELSE IF i \in mask THEN runoff[i]
                  ELSE Milli(nodata)])

\* 1000 * tan of a slope in whole degrees, for the slopes that occur
TanMilli(deg) ==
  CASE deg = 0 -> 0
    [] deg = 10 -> 176
    [] deg = 45 -> 1000
    [] deg = 55 -> 1428
    [] deg = 63 -> 1963
    [] deg = 66 -> 2246
    [] deg = 71 -> 2904
    [] OTHER -> 57290

\* x / (y + 1e-6) in thousandths, for thousandths x and y
OverEps(x, y) == IF y = 0 THEN 0 ELSE RoundDiv(1000 * x, y)

\* erosion_potential(ErosionInputs(slope_deg, awc_mm, land_cover, nodata))
ErosionPotential(slope_deg, awc_mm, land_cover, nodata) ==
  LET mask == {i \in 1..Len(slope_deg) :
                 slope_deg[i] # nodata /\ awc_mm[i] # nodata /\ land_cover[i] # nodata}
  IN  IF mask = {} THEN Indicator([i \in 1..Len(slope_deg) |-> Milli(nodata)])
      ELSE LET tmax == SetMax({TanMilli(slope_deg[i].v) : i \in mask})
               amax == SetMax({awc_mm[i].v : i \in mask})
               amin == SetMin({awc_mm[i].v : i \in mask})
               slope_factor == [i \in mask |-> OverEps(TanMilli(slope_deg[i].v), tmax)]
               awc_inv == [i \in mask |->
                             1000 - (IF amax = amin THEN 0
                                     ELSE RoundDiv(1000 * (awc_mm[i].v - amin), amax - amin))]
               protection == [i \in mask |->
                                IF Between(land_cover[i], 111, 142)
                                     \/ Between(land_cover[i], 331, 335) THEN 800
                                ELSE IF Between(land_cover[i], 311, 313) THEN 200
                                ELSE 500]
               val == [i \in mask |->
                         RoundDiv(slope_factor[i] * (awc_inv[i] + protection[i]), 2000)]
               vmax == SetMax({val[i] : i \in mask})
           IN  Indicator([i \in 1..Len(slope_deg) |->
                  IF i \in mask THEN Num(OverEps(val[i], vmax)) ELSE Milli(nodata)])

\* recharge_index(RechargeInputs(awc_mm, land_cover, nodata))
RechargeIndex(awc_mm, land_cover, nodata) ==
  LET mask == {i \in 1..Len(awc_mm) : awc_mm[i] # nodata /\ land_cover[i] # nodata}
  IN  IF mask = {} THEN Indicator([i \in 1..Len(awc_mm) |-> Milli(nodata)])
      ELSE LET amax == SetMax({awc_mm[i].v : i \in mask})
               amin == SetMin({awc_mm[i].v : i \in mask})
               awc_norm == [i \in mask |->
                              IF amax = amin THEN 0
                              ELSE RoundDiv(1000 * (awc_mm[i].v - amin), amax - amin)]
               modifier == [i \in mask |->
                              IF Between(land_cover[i], 111, 142) THEN 700
                              ELSE IF Between(land_cover[i], 311, 313)
                                        \/ Between(land_cover[i], 321, 335) THEN 1100
                              ELSE 1000]
               val == [i \in mask |-> RoundDiv(awc_norm[i] * modifier[i], 1000)]
               vmax == SetMax({val[i] : i \in mask})
           IN  Indicator([i \in 1..Len(awc_mm) |->
                  IF i \in mask THEN Num(OverEps(val[i], vmax)) ELSE Milli(nodata)])

\* natural_mask(land_cover, nodata), as 0 / 1
NaturalMask(land_cover, nodata) ==
  [i \in 1..Len(land_cover) |->
     IF Between(land_cover[i], 311, 399) /\ land_cover[i] # nodata THEN 1 ELSE 0]

\* fragmentation_index(land_cover, nodata, window=3): uniform_filter with
\* mode="nearest" repeats the edge cell
FragmentationIndex(land_cover, nodata) ==
  LET nat == NaturalMask(land_cover, nodata)
      n == Len(land_cover)
      at(j) == nat[IF j < 1 THEN 1 ELSE IF j > n THEN n ELSE j]
  IN  IF Valid(land_cover, nodata) = {} THEN Indicator([i \in 1..n |-> Milli(nodata)])
      ELSE Indicator([i \in 1..n |->
             IF land_cover[i] # nodata
               THEN Num(RoundDiv(1000 * (at(i - 1) + at(i) + at(i + 1)), 3))
               ELSE Milli(nodata)])

\* the sentinel the indicators are handed
IndNodata == Num(-9999)

SlopeCells == {IndNodata, Num(10), Num(45)}

AwcCells == {IndNodata, Num(50), Num(150)}

LcCells == {IndNodata, Num(112), Num(211), Num(312), Num(333)}

\* cells of a runoff array and of a flow accumulation array
RunoffCells == {Milli(IndNodata), Num(0), Num(500), Num(1000)}

FlowAccCells == {IndNodata, Num(0), Num(10), Num(100)}

NoFlowAcc == [given |-> FALSE, arr |-> <<>>]

---------------------------------------------------------------------------
(* Pipelines: core/pipelines/tnfd_pipeline.py, es4_pipeline.py,
   sbtn_pipeline.py *)

\* The rasters a pipeline opens have two rows and two columns, read as the
\* sequence <<(0,0), (0,1), (1,0), (1,1)>>; nodata is what the file declares.
PipeRaster(cells, nodata) == [cells |-> cells, nodata |-> nodata]

\* floor of arctan(sqrt(q)) in degrees, for the squared gradients that occur
ArctanDeg(q) ==
  CASE q = 0 -> 0
    [] q = 1 -> 45
    [] q = 2 -> 54
    [] q = 4 -> 63
    [] q = 5 -> 65
    [] q = 8 -> 70
    [] OTHER -> 89

\* np.degrees(np.arctan(np.hypot(gx, gy))) with gy, gx = np.gradient(dem):
\* on two rows and two columns every difference is one-sided, and no cell
\* is compared with any nodata value
SlopeDegFromDem(dem) ==
  [i \in 1..4 |->
     LET gy == (IF i <= 2 THEN dem[i + 2].v - dem[i].v ELSE dem[i].v - dem[i - 2].v)
         gx == (IF i % 2 = 1 THEN dem[i + 1].v - dem[i].v ELSE dem[i].v - dem[i - 1].v)
     IN  Num(ArctanDeg(gx * gx + gy * gy))]

\* natural_fraction(land_cover, nodata)
NaturalFraction(land_cover, nodata) ==
  IF Valid(land_cover, nodata) = {} THEN ScoreNaN
  ELSE Frac(SumSeq(NaturalMask(land_cover, nodata)), Cardinality(Valid(land_cover, nodata)))

\* fragmentation_index on two rows and two columns: the 3x3 window with
\* mode="nearest" holds the cell itself four times, its row and its column
\* neighbour twice each and the opposite cell once
FragmentationIndex2x2(land_cover, nodata) ==
  LET nat == NaturalMask(land_cover, nodata)
      row(i) == IF i % 2 = 1 THEN i + 1 ELSE i - 1
      col(i) == IF i <= 2 THEN i + 2 ELSE i - 2
  IN  IF Valid(land_cover, nodata) = {} THEN Indicator([i \in 1..4 |-> Milli(nodata)])
      ELSE Indicator([i \in 1..4 |->
             IF land_cover[i] # nodata
               THEN Num(RoundDiv(1000 * (4 * nat[i] + 2 * nat[row(i)] + 2 * nat[col(i)]
                                         + nat[col(row(i))]), 9))
               ELSE Milli(nodata)])

\* a document of threshold tables, per indicator name; edges in thirds of
\* a thousandth
NoTables == [x \in {} |-> 0]

ThresholdDocs ==
  {NoTables,
   [x \in {"runoff", "erosion"} |->
      IF x = "runoff" THEN ThresholdDef(<<W(300), 1991>>, 3)
      ELSE ThresholdDef(<<W(500)>>, 2)]}

\* the classification loop of a pipeline: classify_indicator with
\* nodata=-9999.0 for every indicator that has a table; the arrays are
\* float32 already
RECURSIVE ClassifyAll(_, _, _)
ClassifyAll(names, indicators, thr) ==
  IF names = <<>> THEN <<>>
  ELSE LET name == Head(names)
           rest == ClassifyAll(Tail(names), indicators, thr)
       IN  IF name \notin DOMAIN thr THEN rest
           ELSE <<[name |-> name,
                   arr |-> ClassifyIndicator(
                             [i \in 1..Len(indicators[name]) |-> Num(W(indicators[name][i].v))],
                             thr[name], Num(W(1000 * IndNodata.v))).classes]>> \o rest

\* run_tnfd_pipeline, lines 54-76: one hard-coded sentinel for every layer
TnfdIndicators(dem_ds, awc_ds, lc_ds) ==
  LET layers(slope_deg, awc, lc, nodata) ==
        LET rest(runoff) ==
              [runoff |-> runoff,
               flood |-> FloodSusceptibility(runoff, nodata, NoFlowAcc).cells,
               erosion |-> ErosionPotential(slope_deg, awc, lc, nodata).cells,
               recharge |-> RechargeIndex(awc, lc, nodata).cells,
               fragmentation |-> FragmentationIndex2x2(lc, nodata).cells]
        IN  rest(RunoffCoefficient(slope_deg, awc, lc, nodata).cells)
  IN  layers(SlopeDegFromDem(dem_ds.cells), awc_ds.cells, lc_ds.cells, IndNodata)

\* run_tnfd_pipeline(site_cfg, scoring_cfg_path, sample_points=None)
RunTnfdPipeline(dem_ds, awc_ds, lc_ds, thr) ==
  LET scored(indicators, classified, scores) ==
        [status |-> "ok", indicators |-> indicators, classified |-> classified,
         site_scores |-> [means |-> scores.means,
                          composite_score |-> scores.composite_score]]
      classify(indicators, classified) ==
        scored(indicators, classified, AggregateSiteScore(classified, <<>>))
      compute(indicators) ==
        classify(indicators,
                 ClassifyAll(<<"runoff", "flood", "erosion", "recharge", "fragmentation">>,
                             indicators, thr))
  IN  compute(TnfdIndicators(dem_ds, awc_ds, lc_ds))

\* run_es4_pipeline, lines 29-44
Es4Indicators(dem_ds, awc_ds, lc_ds) ==
  LET layers(slope_deg, awc, lc, nodata) ==
        LET rest(runoff) ==
              [slope |-> slope_deg,
               runoff |-> runoff,
               flood |-> FloodSusceptibility(runoff, nodata, NoFlowAcc).cells,
               erosion |-> ErosionPotential(slope_deg, awc, lc, nodata).cells]
        IN  rest(RunoffCoefficient(slope_deg, awc, lc, nodata).cells)
  IN  layers(SlopeDegFromDem(dem_ds.cells), awc_ds.cells, lc_ds.cells, IndNodata)

\* run_es4_pipeline(site_cfg, scoring_cfg_path, receptors=None)
RunEs4Pipeline(dem_ds, awc_ds, lc_ds, thr) ==
  LET classify(indicators) ==
        [status |-> "ok", indicators |-> indicators,
         classified |->
           ClassifyAll(<<"slope", "runoff", "flood", "erosion">>,
                       [indicators EXCEPT
                          !.slope = [i \in 1..4 |-> Milli(indicators.slope[i])]],
                       thr)]
  IN  classify(Es4Indicators(dem_ds, awc_ds, lc_ds))

\* run_sbtn_baseline(site_cfg)
RunSbtnBaseline(dem_ds, awc_ds, lc_ds) ==
  LET baseline(slope_deg, awc, lc, nodata) ==
        [status |-> "ok",
         indicators |->
           [recharge_index |-> RechargeIndex(awc, lc, nodata).cells,
            fragmentation_index |-> FragmentationIndex2x2(lc, nodata).cells,
            erosion_index |-> ErosionPotential(slope_deg, awc, lc, nodata).cells],
         natural_fraction |-> NaturalFraction(lc, nodata)]
  IN  baseline(SlopeDegFromDem(dem_ds.cells), awc_ds.cells, lc_ds.cells, IndNodata)

\* the rasters of a site: ordinary cells, and at most one cell holding the
\* nodata value the file declares
WithNodataAt(base, at, nodata) ==
  PipeRaster([i \in 1..4 |-> IF i = at THEN nodata ELSE Num(base[i])], nodata)

DemRasters == {WithNodataAt(<<0, 1, 1, 1>>, at, nd) : at \in 0..4, nd \in {IndNodata, Num(-1)}}

AwcRasters ==
  {WithNodataAt(<<50, 150, 100, 150>>, at, nd) : at \in 0..4, nd \in {IndNodata, Num(-1)}}

LcRasters ==
  {WithNodataAt(<<112, 211, 312, 333>>, at, nd) : at \in 0..4, nd \in {IndNodata, Num(255)}}

---------------------------------------------------------------------------
(* Bounds *)

\* largest threshold of the generated threshold tables
MaxThr == 3

\* longest array or column handed to an indicator operation
MaxCells == 2

CellSeqs(S) == UNION {[1..k -> S] : k \in 0..MaxCells}

\* most classified layers handed to aggregate_site_score
MaxLayers == 2

LayerMaps ==
  UNION {{[i \in 1..k |-> [name |-> LayerNames[i], arr |-> arrs[i]]] :
            arrs \in [1..k -> CellSeqs(ClassSamples)]} : k \in 0..MaxLayers}

GenThr == 1..MaxThr

ThrTables ==
  {DefaultThr} \cup
  [hi_awc : GenThr, hi_slope : GenThr, med_awc : GenThr, med_slope : GenThr]

ThrEdges(thr) == {thr.hi_awc, thr.hi_slope, thr.med_awc, thr.med_slope}

\* inputs on, just below and just above every edge of the table, and the
\* three kinds of missing input
ClassInputs(thr) ==
  {Num(e + d) : e \in ThrEdges(thr), d \in {-1, 0, 1}} \cup {None, NaN, Str}

---------------------------------------------------------------------------
(* Actions *)

Idle == [op |-> "none"]

NoRet == [status |-> "none"]

Init == pc = "idle" /\ call = Idle /\ ret = NoRet

DoClassifyRecharge ==
  /\ pc = "idle"
  /\ \E thr \in ThrTables :
       \E awc \in ClassInputs(thr), slope \in ClassInputs(thr) :
         /\ call' = [op |-> "_classify_recharge", awc |-> awc, slope |-> slope, thr |-> thr]
         /\ ret' = [status |-> "ok", class |-> ClassifyRecharge(awc, slope, thr)]
  /\ pc' = "done"

Return ==
  /\ pc = "done"
  /\ pc' = "idle"
  /\ call' = Idle
  /\ ret' = NoRet

DoSampleRasterAtPoints ==
  /\ pc = "idle"
  /\ \E src \in Rasters, coords \in PointSeqs(MaxPts) :
       /\ call' = [op |-> "sample_raster_at_points", reader |-> src, coords |-> coords,
                   nodata |-> src.nodata, caller |-> "run_analysis"]
       /\ ret' = SampleRasterAtPoints(coords, src)
  /\ pc' = "done"

DoBatchExtractElevation ==
  /\ pc = "idle"
  /\ \E src \in Rasters, caller \in Callers :
       \E coords \in CallerCoords(caller) :
         /\ call' = [op |-> "batch_extract_elevation", reader |-> src, coords |-> coords,
                     nodata |-> SrcNodataArg(caller, src), caller |-> caller]
         /\ ret' = BatchExtractElevation(src, coords, SrcNodataArg(caller, src))
  /\ pc' = "done"

DoBatchSlopePercent3x3 ==
  /\ pc = "idle"
  /\ \E src \in Rasters, caller \in Callers :
       \E coords \in CallerCoords(caller) :
         /\ call' = [op |-> "batch_slope_percent_3x3", reader |-> src, coords |-> coords,
                     nodata |-> SrcNodataArg(caller, src), caller |-> caller]
         /\ ret' = BatchSlopePercent3x3(src, coords, SrcNodataArg(caller, src))
  /\ pc' = "done"

DoSampleRastersAtPoints ==
  /\ pc = "idle"
  /\ \E ds \in Rasters, points \in PointSeqs(MaxPts), nodata \in Sentinels :
       /\ call' = [op |-> "sample_rasters_at_points", reader |-> ds, coords |-> points,
                   nodata |-> nodata, caller |-> "pipeline"]
       /\ ret' = SampleRastersAtPoints(ds, points, nodata)
  /\ pc' = "done"

DoRunAnalysis ==
  /\ pc = "idle"
  /\ \E coords \in RunCoords, dem_file \in DemFiles, awc_file \in AwcFiles,
        clc_file \in ClcFiles, thr \in RunThrs, slope_file \in SlopeFiles :
       \E water_use \in WaterUseCols(Len(coords)) :
         /\ call' = [op |-> "run_analysis", coords |-> coords, dem_file |-> dem_file,
                     awc_file |-> awc_file, clc_file |-> clc_file, thr |-> thr,
                     slope_file |-> slope_file, water_use |-> water_use]
         /\ ret' = RunAnalysis([coords |-> coords, water_use |-> water_use], dem_file,
                               awc_file, clc_file, thr, slope_file)
  /\ pc' = "done"

DoClassifyIndicator ==
  /\ pc = "idle"
  /\ \E thr \in ThresholdDefs :
       \E arr \in CellSeqs(CellValues(thr)) :
         /\ call' = [op |-> "classify_indicator", arr |-> arr, thr |-> thr,
                     nodata |-> PipelineNodata]
         /\ ret' = ClassifyIndicator(arr, thr, PipelineNodata)
  /\ pc' = "done"

DoClassifyPoints ==
  /\ pc = "idle"
  /\ \E thr \in ThresholdDefs :
       \E col \in CellSeqs(CellValues(thr)) :
         /\ call' = [op |-> "classify_points", arr |-> col, thr |-> thr,
                     nodata |-> PipelineNodata]
         /\ ret' = ClassifyPoints(col, thr, PipelineNodata)
  /\ pc' = "done"

DoAggregateSiteScore ==
  /\ pc = "idle"
  /\ \E layers \in LayerMaps, weights \in WeightMaps :
       /\ call' = [op |-> "aggregate_site_score", layers |-> layers, weights |-> weights]
       /\ ret' = AggregateSiteScore(layers, weights)
  /\ pc' = "done"

DoRunoffCoefficient ==
  /\ pc = "idle"
  /\ \E n \in 0..MaxCells :
       \E slope_deg \in [1..n -> SlopeCells], awc_mm \in [1..n -> AwcCells],
          land_cover \in [1..n -> LcCells] :
         /\ call' = [op |-> "runoff_coefficient", nodata |-> IndNodata,
                     layers |-> [slope_deg |-> slope_deg, awc_mm |-> awc_mm,
                                 land_cover |-> land_cover]]
         /\ ret' = RunoffCoefficient(slope_deg, awc_mm, land_cover, IndNodata)
  /\ pc' = "done"

DoErosionPotential ==
  /\ pc = "idle"
  /\ \E n \in 0..MaxCells :
       \E slope_deg \in [1..n -> SlopeCells], awc_mm \in [1..n -> AwcCells],
          land_cover \in [1..n -> LcCells] :
         /\ call' = [op |-> "erosion_potential", nodata |-> IndNodata,
                     layers |-> [slope_deg |-> slope_deg, awc_mm |-> awc_mm,
                                 land_cover |-> land_cover]]
         /\ ret' = ErosionPotential(slope_deg, awc_mm, land_cover, IndNodata)
  /\ pc' = "done"

DoRechargeIndex ==
  /\ pc = "idle"
  /\ \E n \in 0..MaxCells :
       \E awc_mm \in [1..n -> AwcCells], land_cover \in [1..n -> LcCells] :
         /\ call' = [op |-> "recharge_index", nodata |-> IndNodata,
                     layers |-> [awc_mm |-> awc_mm, land_cover |-> land_cover]]
         /\ ret' = RechargeIndex(awc_mm, land_cover, IndNodata)
  /\ pc' = "done"

DoFragmentationIndex ==
  /\ pc = "idle"
  /\ \E n \in 0..MaxCells :
       \E land_cover \in [1..n -> LcCells] :
         /\ call' = [op |-> "fragmentation_index", nodata |-> IndNodata,
                     layers |-> [land_cover |-> land_cover]]
         /\ ret' = FragmentationIndex(land_cover, IndNodata)
  /\ pc' = "done"

DoFloodSusceptibility ==
  /\ pc = "idle"
  /\ \E n \in 0..MaxCells :
       \E runoff \in [1..n -> RunoffCells] :
         \E flow_acc \in {NoFlowAcc} \cup
                          {[given |-> TRUE, arr |-> a] : a \in [1..n -> FlowAccCells]} :
           /\ call' = [op |-> "flood_susceptibility", nodata |-> IndNodata,
                       runoff |-> runoff, flow_acc |-> flow_acc]
           /\ ret' = FloodSusceptibility(runoff, IndNodata, flow_acc)
  /\ pc' = "done"

DoRunTnfdPipeline ==
  /\ pc = "idle"
  /\ \E dem \in DemRasters, awc \in AwcRasters, lc \in LcRasters, thr \in ThresholdDocs :
       /\ call' = [op |-> "run_tnfd_pipeline", dem |-> dem, awc |-> awc, clc |-> lc,
                   thr |-> thr]
       /\ ret' = RunTnfdPipeline(dem, awc, lc, thr)
  /\ pc' = "done"

DoRunEs4Pipeline ==
  /\ pc = "idle"
  /\ \E dem \in DemRasters, awc \in AwcRasters, lc \in LcRasters, thr \in ThresholdDocs :
       /\ call' = [op |-> "run_es4_pipeline", dem |-> dem, awc |-> awc, clc |-> lc,
                   thr |-> thr]
       /\ ret' = RunEs4Pipeline(dem, awc, lc, thr)
  /\ pc' = "done"

DoRunSbtnBaseline ==
  /\ pc = "idle"
  /\ \E dem \in DemRasters, awc \in AwcRasters, lc \in LcRasters :
       /\ call' = [op |-> "run_sbtn_baseline", dem |-> dem, awc |-> awc, clc |-> lc,
                   thr |-> NoTables]
       /\ ret' = RunSbtnBaseline(dem, awc, lc)
  /\ pc' = "done"

DoAssignClcCodeToPoints ==
  /\ pc = "idle"
  /\ \E coords \in RunCoords \ {<<>>}, clc_file \in VectorFiles :
       /\ call' = [op |-> "assign_clc_code_to_points", coords |-> coords,
                   clc_file |-> clc_file]
       /\ ret' = LET r == AssignClcCodeToPoints(coords, clc_file)
                 IN  [status |-> r.status, codes |-> r.vals, left_crs |-> Wgs84,
                      right_crs |-> r.right_crs]
  /\ pc' = "done"

DoOpenReaderWgs84 ==
  /\ pc = "idle"
  /\ \E f \in OpenFiles :
       /\ call' = [op |-> "open_reader_wgs84", file |-> f]
       /\ ret' = OpenReaderWgs84(f)
  /\ pc' = "done"

DoSelfCheck ==
  /\ pc = "idle"
  /\ \E argv \in Argvs :
       /\ call' = [op |-> "self_check", argv |-> argv]
       /\ ret' = SelfCheckMain(argv)
  /\ pc' = "done"

DoClassifyRechargePage ==
  /\ pc = "idle"
  /\ \E thr \in ThrTables, page \in Pages :
       \E awc \in ClassInputs(thr), slope \in ClassInputs(thr) :
         /\ call' = [op |-> "classify_recharge", page |-> page, awc |-> awc,
                     slope |-> slope, thr |-> thr]
         /\ ret' = LET c == ClassifyRechargePage(awc, slope, thr)
                   IN  [status |-> IF c = "TypeError" THEN "raise" ELSE "ok", class |-> c]
  /\ pc' = "done"

Next ==
  \/ DoClassifyRecharge
  \/ DoSampleRasterAtPoints
  \/ DoBatchExtractElevation
  \/ DoBatchSlopePercent3x3
  \/ DoSampleRastersAtPoints
  \/ DoRunAnalysis
  \/ DoClassifyIndicator
  \/ DoClassifyPoints
  \/ DoAggregateSiteScore
  \/ DoRunoffCoefficient
  \/ DoErosionPotential
  \/ DoRechargeIndex
  \/ DoFragmentationIndex
  \/ DoFloodSusceptibility
  \/ DoRunTnfdPipeline
  \/ DoRunEs4Pipeline
  \/ DoRunSbtnBaseline
  \/ DoAssignClcCodeToPoints
  \/ DoOpenReaderWgs84
  \/ DoSelfCheck
  \/ DoClassifyRechargePage
  \/ Return

Spec == Init /\ [][Next]_vars

---------------------------------------------------------------------------
(* Properties *)

Classified == pc = "done" /\ call.op = "_classify_recharge"

InputMissing(x) == x.k \in {"none", "nan", "str"}

\* C1: for numeric, non-missing inputs _classify_recharge returns "High"
\* exactly when awc > high.awc_min and slope < high.slope_max, otherwise
\* "Medium" exactly when awc >= medium.awc_min or slope <= medium.slope_max,
\* otherwise "Low".
C1_RechargeRule ==
  (Classified /\ IsNum(call.awc) /\ IsNum(call.slope)) =>
    LET a == call.awc.v
        s == call.slope.v
        high == a > call.thr.hi_awc /\ s < call.thr.hi_slope
        med == a >= call.thr.med_awc \/ s <= call.thr.med_slope
    IN  /\ (ret.class = "High") <=> high
        /\ (ret.class = "Medium") <=> (~high /\ med)
        /\ (ret.class = "Low") <=> (~high /\ ~med)

\* a numeric pair above the high capacity and below the high slope is "High"
C1_Witness ==
  /\ Classified /\ IsNum(call.awc) /\ IsNum(call.slope)
  /\ call.awc.v > call.thr.hi_awc /\ call.slope.v < call.thr.hi_slope
  /\ ret.class = "High"

DefaultBoundary ==
  /\ Classified /\ call.thr = DefaultThr
  /\ call.awc = Num(1500) /\ call.slope = Num(49)

\* C2 (as stated): with the default thresholds a capacity of exactly 150 and
\* a slope of 4.9 is classified "High".
C2_BoundaryIsHigh == DefaultBoundary => ret.class = "High"

\* C2 (amended): with the default thresholds a capacity of exactly 150 and a
\* slope of 4.9 is classified "Medium": "High" needs a capacity above 150.
C2_BoundaryIsMedium == DefaultBoundary => ret.class = "Medium"

\* the boundary point has been classified, and not as "High"
C2_Witness == DefaultBoundary /\ ret.class = "Medium"

\* C3: whenever either input is missing (None or NaN) or cannot be converted
\* to a number, the result is "Low", whatever the other input and the
\* thresholds.
C3_MissingIsLow ==
  (Classified /\ (InputMissing(call.awc) \/ InputMissing(call.slope))) =>
    ret.class = "Low"

\* a missing capacity with slope 0, which alone would meet the medium slope
C3_Witness ==
  /\ Classified /\ call.awc = None /\ call.slope = Num(0)
  /\ call.slope.v <= call.thr.med_slope
  /\ ret.class = "Low"

SamplerOps == {"sample_raster_at_points", "batch_extract_elevation"}

\* a point sampler has returned its list
Sampled == pc = "done" /\ call.op \in SamplerOps /\ ret.status = "ok"

NPts == Len(call.coords)

PixelOf(i) == Index(call.reader, call.coords[i])

PixelInside(i) == InRaster(PixelOf(i))

CellOf(i) == call.reader.cells[PixelOf(i)]

C5_NoNaNReturned ==
  Sampled => \A i \in 1..Len(ret.vals) : IsNum(ret.vals[i]) \/ IsMissing(ret.vals[i])

\* C6: a point outside the raster's pixel extent samples to missing on every
\* sampling path (the nodata sentinel for sample_rasters_at_points), for
\* every raster, also one that declares no nodata value; it never yields a
\* number and never raises.
C6_OutsideIsMissing ==
  (pc = "done" /\ call.op \in SamplerOps \cup {"sample_rasters_at_points"}) =>
    /\ (\A i \in 1..NPts : ~PixelInside(i)) => ret.status = "ok"
    /\ ret.status = "ok" =>
         \A i \in 1..NPts :
           ~PixelInside(i) =>
             IF call.op = "sample_rasters_at_points"
               THEN ret.vals[i] = call.nodata
               ELSE IsMissing(ret.vals[i])

\* the sampler of the call in progress, on other points
Resample(coords) ==
  IF call.op = "sample_raster_at_points"
    THEN SampleRasterAtPoints(coords, call.reader)
    ELSE BatchExtractElevation(call.reader, coords, call.nodata)

\* C7: point sampling is length- and order-preserving: n points give n
\* values, the i-th value is the sample of the i-th point, and sampling a
\* permutation of the points returns the same permutation of the values.
C7_OrderPreserved ==
  Sampled =>
    /\ Len(ret.vals) = NPts
    /\ \A i \in 1..NPts : Resample(<<call.coords[i]>>) = Ok(<<ret.vals[i]>>)
    /\ \A p \in Permutations(1..NPts) :
         Resample([i \in 1..NPts |-> call.coords[p[i]]])
           = Ok([i \in 1..NPts |-> ret.vals[p[i]]])

\* two points with different outcomes: the first missing, the second a number
C7_Witness ==
  /\ Sampled /\ NPts = 2
  /\ IsMissing(ret.vals[1]) /\ IsNum(ret.vals[2])

SlopeDone == pc = "done" /\ call.op = "batch_slope_percent_3x3"

\* the 3x3 window centred on the pixel reaches outside the raster
WindowCutOff(rc) ==
  rc[1] <= 0 \/ rc[1] >= Height - 1 \/ rc[2] <= 0 \/ rc[2] >= Width - 1

WindowCells(rc) == {<<rc[1] + d[1] - 1, rc[2] + d[2] - 1>> : d \in Win}

\* C8: batch_slope_percent_3x3 returns missing for every point whose 3x3
\* window would extend outside the raster (first or last row or column, or a
\* pixel outside the raster).
C8_EdgeIsMissing ==
  (SlopeDone /\ ret.status = "ok") =>
    /\ Len(ret.vals) = NPts
    /\ \A i \in 1..NPts : WindowCutOff(PixelOf(i)) => IsMissing(ret.vals[i])

\* a pixel of the last row is missing while an inner pixel has a slope
C8_Witness ==
  /\ SlopeDone /\ ret.status = "ok"
  /\ \E i, j \in 1..NPts :
       /\ PixelInside(i) /\ PixelOf(i)[1] = Height - 1 /\ IsMissing(ret.vals[i])
       /\ IsNum(ret.vals[j])

\* C9: for a point with a full 3x3 window, batch_slope_percent_3x3 returns
\* missing whenever one of the 9 window cells equals the DEM's declared
\* nodata value, on every call path (run_analysis and the diagnostics app).
C9_NodataWindowIsMissing ==
  (SlopeDone /\ ret.status = "ok") =>
    \A i \in 1..NPts :
      (/\ ~WindowCutOff(PixelOf(i))
       /\ \E rc \in WindowCells(PixelOf(i)) :
            rc \notin call.reader.bad /\ FloatEq(call.reader.cells[rc], call.reader.nodata))
        => IsMissing(ret.vals[i])

\* C10: batch_slope_percent_3x3 never raises; a degenerate pixel size or a
\* failing window read for one point yields missing for that point only, the
\* other points are still processed, and the output has one entry per point
\* in input order.
C10_SlopeTotal ==
  SlopeDone =>
    /\ ret.status = "ok"
    /\ Len(ret.vals) = NPts
    /\ \A i \in 1..NPts :
         /\ call.reader.rot => IsMissing(ret.vals[i])
         /\ (~WindowCutOff(PixelOf(i)) /\ WindowCells(PixelOf(i)) \cap call.reader.bad # {})
              => IsMissing(ret.vals[i])
         /\ BatchSlopePercent3x3(call.reader, <<call.coords[i]>>, call.nodata)
              = Ok(<<ret.vals[i]>>)

\* the window read fails for the first point and the second still has a slope
C10_Witness ==
  /\ SlopeDone /\ ret.status = "ok" /\ NPts = 2
  /\ ~WindowCutOff(PixelOf(1))
  /\ WindowCells(PixelOf(1)) \cap call.reader.bad # {}
  /\ IsMissing(ret.vals[1])
  /\ IsNum(ret.vals[2])

---------------------------------------------------------------------------
(* Properties of the screening run *)

Ran == pc = "done" /\ call.op = "run_analysis"

SlopeSupplied == call.slope_file.kind # "none"

\* the slopes the 3x3 estimator gives for the points of the run
EstimatedSlopes ==
  ToColumn(BatchSlopePercent3x3(call.dem_file.ds, call.coords, call.dem_file.ds.nodata).vals)

\* C11: in run_analysis a supplied slope file keeps the 3x3 estimator from
\* being invoked and every row is flagged "precomputed"; without one the
\* estimator supplies every row's slope and every row is flagged "approx".
C11_SlopeProvenance ==
  Ran =>
    /\ SlopeSupplied => ~ret.est
    /\ ret.status = "ok" =>
         /\ Len(ret.rows) = Len(call.coords)
         /\ \A i \in 1..Len(ret.rows) :
              IF SlopeSupplied
                THEN ret.rows[i].slope_quality_flag = "precomputed"
                ELSE /\ ret.rows[i].slope_quality_flag = "approx"
                     /\ ret.est
                     /\ ret.rows[i].slope_percent = EstimatedSlopes[i]

C11_Witness ==
  Ran /\ SlopeSupplied /\ ret.status = "ok" /\ Len(ret.rows) = 2

StageTags == {"dem_slope_elev", "awc_sample", "clc"}

\* the first stage that fails when the stages are run in order
FirstFailing ==
  IF DemStage(call.coords, call.dem_file, call.slope_file).status = "raise"
    THEN "dem_slope_elev"
  ELSE IF AwcStage(call.coords, call.awc_file).status = "raise" THEN "awc_sample"
  ELSE IF ClcStage(call.coords, call.clc_file).status = "raise" THEN "clc"
  ELSE "none"

\* C12: every failure of run_analysis caused by reading, sampling or
\* joining an input layer is raised with one of the three stage tags, and
\* the tag names the first stage that failed.
C12_FailureIsTagged ==
  Ran /\ ret.status = "raise" => ret.tag \in StageTags /\ ret.tag = FirstFailing

\* a stage after the first failed, on a run of at least one row
LaterStageFailed ==
  Ran /\ ret.status = "raise" /\ ret.tag \in {"awc_sample", "clc"} /\ Len(call.coords) > 0

\* C13 as stated: when a later stage fails, the results the earlier stages
\* computed remain available to the caller together with the tagged failure.
C13_EarlierResultsKept ==
  LaterStageFailed =>
    /\ Len(ret.rows) = Len(call.coords)
    /\ \A i \in 1..Len(ret.rows) :
         ret.rows[i].elevation_m =
           ToColumn(BatchExtractElevation(call.dem_file.ds, call.coords,
                                          call.dem_file.ds.nodata).vals)[i]

\* C13, amended: a failing stage ends run_analysis with the stage-tagged
\* error alone; no table, and so no result of an earlier stage, reaches the
\* caller.
C13_FailureDropsResults ==
  Ran /\ ret.status = "raise" => ret.rows = <<>> /\ ret.tag = FirstFailing

C13_Witness == LaterStageFailed /\ ret.tag = "clc" /\ call.awc_file.kind = "raster"

\* C14 (run_analysis): when the call returns or raises, every dataset and
\* WarpedVRT it opened has been closed.
C14_NoHandleOutlivesCall ==
  Ran => ret.open = {}

---------------------------------------------------------------------------
(* Properties of the threshold classification *)

ClassifyOps == {"classify_indicator", "classify_points"}

ClassifiedCells == pc = "done" /\ call.op \in ClassifyOps

StrictlyIncreasing(bins) == \A i \in 1..(Len(bins) - 1) : bins[i] < bins[i + 1]

EdgesUpTo(v) == Cardinality({j \in 1..Len(call.thr.bins) : call.thr.bins[j] <= v})

\* C15: with strictly increasing edges classify_indicator and
\* classify_points give every non-missing number v the class
\* 1 + (number of edges <= v), and the missing sentinel the class 0.
C15_RightOpenClasses ==
  ClassifiedCells /\ StrictlyIncreasing(call.thr.bins) =>
    /\ ret.status = "ok"
    /\ Len(ret.classes) = Len(call.arr)
    /\ \A i \in 1..Len(ret.classes) :
         /\ call.arr[i] = call.nodata => ret.classes[i] = 0
         /\ IsNum(call.arr[i]) /\ call.arr[i] # call.nodata =>
              ret.classes[i] = 1 + EdgesUpTo(call.arr[i].v)

\* C16: every classified value lies between 0 and the number of class
\* labels, is 0 for the sentinel and for NaN alike, and is 1 or more only
\* for a number that is not the sentinel.
C16_ClassRange ==
  ClassifiedCells /\ ret.status = "ok" =>
    /\ Len(ret.classes) = Len(call.arr)
    /\ \A i \in 1..Len(ret.classes) :
         /\ ret.classes[i] \in 0..Len(call.thr.labels)
         /\ (call.arr[i] = call.nodata \/ IsNaN(call.arr[i])) => ret.classes[i] = 0
         /\ ret.classes[i] >= 1 => IsNum(call.arr[i]) /\ call.arr[i] # call.nodata

---------------------------------------------------------------------------
(* Properties of the site score *)

Scored == pc = "done" /\ call.op = "aggregate_site_score"

\* indices of the layers holding at least one cell of class > 0
ClassifiedLayers == {i \in 1..Len(call.layers) : \E j \in 1..Len(call.layers[i].arr) :
                                                    call.layers[i].arr[j] > 0}

CellSum(i) == SumSeq(Positive(call.layers[i].arr))

CellCount(i) == Len(Positive(call.layers[i].arr))

WeightAt(i) ==
  IF call.layers[i].name \in DOMAIN call.weights
    THEN call.weights[call.layers[i].name] ELSE 1

RECURSIVE CountProduct(_)
CountProduct(I) ==
  IF I = {} THEN 1
  ELSE LET i == CHOOSE x \in I : TRUE IN CellCount(i) * CountProduct(I \ {i})

\* sum over I of w_i * mean_i, times the product of all the cell counts
RECURSIVE WeightedSum(_, _)
WeightedSum(I, all) ==
  IF I = {} THEN 0
  ELSE LET i == CHOOSE x \in I : TRUE
       IN  WeightAt(i) * CellSum(i) * CountProduct(all \ {i}) + WeightedSum(I \ {i}, all)

RECURSIVE WeightSum(_)
WeightSum(I) ==
  IF I = {} THEN 0 ELSE LET i == CHOOSE x \in I : TRUE IN WeightAt(i) + WeightSum(I \ {i})

\* C17: the composite is sum(w_i * mean_i) / sum(w_i) over the indicators
\* with a cell of class > 0 (w_i = 1 unless given); an indicator without
\* such a cell gets no mean-class entry and changes nothing, and with no
\* classified indicator the composite is NaN.
C17_WeightedMean ==
  Scored =>
    /\ {ret.means[k].name : k \in 1..Len(ret.means)} =
         {call.layers[i].name : i \in ClassifiedLayers}
    /\ \A k \in 1..Len(ret.means) : \A i \in ClassifiedLayers :
         ret.means[k].name = call.layers[i].name =>
           ret.means[k].mean.n * CellCount(i) = CellSum(i) * ret.means[k].mean.d
    /\ WeightSum(ClassifiedLayers) > 0 =>
         /\ ret.composite_score.d > 0
         /\ ret.composite_score.n * CountProduct(ClassifiedLayers) * WeightSum(ClassifiedLayers)
              = WeightedSum(ClassifiedLayers, ClassifiedLayers) * ret.composite_score.d
    /\ ClassifiedLayers = {} => ret.composite_score = ScoreNaN
    /\ ret = AggregateSiteScore(
               SelectSeq(call.layers, LAMBDA l : Positive(l.arr) # <<>>), call.weights)

\* a classified layer with a weight next to a layer of missing cells only
C17_Witness ==
  /\ Scored
  /\ Len(call.layers) = 2
  /\ ClassifiedLayers = {1}
  /\ Len(call.layers[2].arr) > 0
  /\ call.weights # <<>>

---------------------------------------------------------------------------
(* Properties of the indicators *)

IndicatorOps ==
  {"runoff_coefficient", "recharge_index", "erosion_potential", "fragmentation_index"}

IndicatorDone == pc = "done" /\ call.op \in IndicatorOps

LayersOf == DOMAIN call.layers

\* number of cells of the input arrays
NCells == Len(call.layers["land_cover"])

Missing == Milli(call.nodata)

SomeLayerMissing(i) == \E l \in LayersOf : call.layers[l][i] = call.nodata

\* C18: in the output of runoff_coefficient, recharge_index,
\* erosion_potential and fragmentation_index, every cell where an input
\* layer holds the nodata sentinel is nodata; the call does not raise and
\* the output has the shape of the input, also when every cell is missing.
C18_MissingPropagates ==
  IndicatorDone =>
    /\ ret.status = "ok"
    /\ Len(ret.cells) = NCells
    /\ \A i \in 1..NCells : SomeLayerMissing(i) => ret.cells[i] = Missing

\* a runoff array with a computed cell next to a cell whose land cover
\* alone is missing
C18_Witness ==
  /\ IndicatorDone
  /\ call.op = "runoff_coefficient"
  /\ NCells = 2
  /\ ~SomeLayerMissing(1) /\ ret.cells[1] # Missing
  /\ call.layers["land_cover"][2] = call.nodata
  /\ call.layers["slope_deg"][2] # call.nodata
  /\ call.layers["awc_mm"][2] # call.nodata

FloodDone == pc = "done" /\ call.op = "flood_susceptibility"

\* C19: without flow accumulation flood_susceptibility equals the runoff
\* array; with it every cell is 0.6 * runoff + 0.4 * normalised flow
\* accumulation clipped to [0, 1], and is missing wherever runoff or flow
\* accumulation is missing.
C19_FloodCombination ==
  FloodDone =>
    /\ Len(ret.cells) = Len(call.runoff)
    /\ ~call.flow_acc.given => ret.cells = call.runoff
    /\ call.flow_acc.given =>
         \A i \in 1..Len(call.runoff) :
           IF call.runoff[i] = Missing \/ call.flow_acc.arr[i] = call.nodata
             THEN ret.cells[i] = Missing
             ELSE ret.cells[i] =
                    Num(Clip(RoundDiv(6 * call.runoff[i].v
                      + 4 * Normalise(call.flow_acc.arr, call.nodata, None, None)[i].v, 10)))

---------------------------------------------------------------------------
(* Properties of the pipelines *)

PipelineOps == {"run_tnfd_pipeline", "run_es4_pipeline", "run_sbtn_baseline"}

PipelineDone == pc = "done" /\ call.op \in PipelineOps

\* the rasters an indicator of a pipeline is computed from
Contributing(name) ==
  IF name \in {"recharge", "recharge_index"} THEN {"awc", "clc"}
  ELSE IF name \in {"fragmentation", "fragmentation_index"} THEN {"clc"}
  ELSE IF name = "slope" THEN {"dem"}
  ELSE {"dem", "awc", "clc"}

\* the cell of the raster holds the nodata value its file declares
DeclaredMissing(layer, i) == call[layer].cells[i] = call[layer].nodata

\* the sentinel as it appears in the array of an indicator
MissingIn(name) == IF name = "slope" THEN IndNodata ELSE Milli(IndNodata)

\* C20: in the indicators a pipeline computes from the rasters it opens,
\* a cell is missing exactly when one of the contributing rasters holds,
\* at that cell, the nodata value that raster itself declares.
C20_OwnNodataPerLayer ==
  PipelineDone =>
    \A name \in DOMAIN ret.indicators : \A i \in 1..4 :
      (ret.indicators[name][i] = MissingIn(name))
        <=> (\E layer \in Contributing(name) : DeclaredMissing(layer, i))

---------------------------------------------------------------------------
(* Properties of the vector zone assigner *)

Assigned == pc = "done" /\ call.op = "assign_clc_code_to_points"

\* the features of the source that contain the point, in file order
HitsOf(pt) == SelectSeq(call.clc_file.polys, LAMBDA p : PixelAt(pt) \in p.cover)

\* C21: assign_clc_code_to_points returns one value per input point, in
\* input order: missing for a point in no polygon, the code of the first
\* hit for a point in one or more polygons.
C21_OneValuePerPoint ==
  Assigned /\ ret.status = "ok" =>
    /\ Len(ret.codes) = Len(call.coords)
    /\ \A i \in 1..Len(call.coords) :
         ret.codes[i] = IF HitsOf(call.coords[i]) = <<>> THEN NaN
                        ELSE NormCode(Head(HitsOf(call.coords[i])).code)

\* none of the candidate names and no integer or float field
NoUsableField ==
  \A i \in 1..Len(call.clc_file.columns) :
    /\ \A j \in 1..Len(CLC_CODE_FIELDS) : call.clc_file.columns[i].name # CLC_CODE_FIELDS[j]
    /\ call.clc_file.columns[i].kind \notin {"i", "u", "f"}

\* C22: on a source without a usable code field assign_clc_code_to_points
\* raises for every point set; it never answers with missing values.
C22_NoFieldIsAnError ==
  Assigned /\ call.clc_file.opens /\ NoUsableField => ret.status = "raise"

\* C23: when the assigner joins, the polygons are in the CRS of the
\* points, the canonical CRS, whatever CRS the source is stored in.
C23_JoinInOneCrs ==
  Assigned /\ ret.right_crs # "unjoined" => ret.right_crs = ret.left_crs

---------------------------------------------------------------------------
(* Properties of the raster readers *)

OpenedReader == pc = "done" /\ call.op = "open_reader_wgs84"

\* the file of the run a reader was created for
FileOf(layer) ==
  IF layer = "dem" THEN call.dem_file
  ELSE IF layer = "slope" THEN call.slope_file
  ELSE IF layer = "awc" THEN call.awc_file
  ELSE call.clc_file

\* C24: a raster that declares no CRS is not sampled: open_reader_wgs84
\* raises on it, run_analysis ends with the error of the stage that opened
\* it, and no reader of a run is a reader of a raster without a CRS.
C24_NoCrsIsAnError ==
  /\ OpenedReader /\ call.file.opens /\ call.file.crs = NoCrs => ret.status = "raise"
  /\ Ran =>
       /\ \A i \in 1..Len(ret.readers) : ret.readers[i].reader.crs # NoCrs
       /\ (call.dem_file.opens /\ call.dem_file.crs = NoCrs)
            => (ret.status = "raise" /\ ret.tag = "dem_slope_elev")

\* C25: a reprojecting reader is created with bilinear resampling for the
\* elevation and the water-capacity raster, with nearest-neighbour
\* resampling for the land-cover raster, and with the nodata value the
\* source declares.
C25_ResamplingByLayer ==
  /\ OpenedReader /\ ret.status = "ok" /\ ret.reader.view = "vrt" =>
       ret.reader.resampling = "bilinear" /\ ret.reader.src_nodata = call.file.ds.nodata
  /\ Ran =>
       \A i \in 1..Len(ret.readers) :
         LET r == ret.readers[i]
         IN  r.reader.view = "vrt" =>
               /\ r.layer \in {"dem", "awc"} => r.reader.resampling = "bilinear"
               /\ r.layer = "clc" => r.reader.resampling = "nearest"
               /\ r.reader.src_nodata = FileOf(r.layer).ds.nodata

---------------------------------------------------------------------------
(* Properties of the diagnostic command line *)

SelfChecked == pc = "done" /\ call.op = "self_check"

\* C26: every invocation of tools/self_check.py ends with exit code 0,
\* having printed the assembled row, or with exit code 2, whatever the
\* arguments; none ends with another code or with an uncaught exception.
C26_ExitZeroOrTwo ==
  SelfChecked =>
    /\ ~ret.uncaught
    /\ ret.exit \in {0, 2}
    /\ ret.exit = 0 <=> ret.printed = "row"

---------------------------------------------------------------------------
(* Properties of the assembled table *)

RanOk == Ran /\ ret.status = "ok"

\* C27: in the table of run_analysis a data-quality condition at a point
\* shows as a missing value flagged in the point's row: dem_nodata_flag is
\* true exactly when elevation_m is missing, awc_nodata_flag exactly when
\* awc_mm is missing, and a row whose slope is missing has a nodata flag
\* that is true.
C27_MissingIsFlagged ==
  RanOk =>
    \A i \in 1..Len(ret.rows) :
      LET row == ret.rows[i]
      IN  /\ row.dem_nodata_flag <=> IsNa(row.elevation_m)
          /\ row.awc_nodata_flag <=> IsNa(row.awc_mm)
          /\ IsNa(row.slope_percent) => (row.dem_nodata_flag \/ row.awc_nodata_flag)

\* the water use of row i as a number, a missing entry counting as 0
WaterUseOf(i) == FillNa0(call.water_use.col[i])

\* some entry of the water-use column is neither a number nor missing
Unconvertible ==
  call.water_use.present /\ \E i \in 1..Len(call.water_use.col) : WaterUseOf(i).k = "str"

\* C28 as stated: water_stress_flag is false on every row when the table
\* has no water_use_m3y column, and otherwise true exactly on the rows whose
\* recharge_class is "Low" and whose water use is a number above 0.
C28_StressNeedsWaterUse ==
  RanOk =>
    \A i \in 1..Len(ret.rows) :
      ret.rows[i].water_stress_flag <=>
        /\ call.water_use.present
        /\ ret.rows[i].recharge_class = "Low"
        /\ IsNum(WaterUseOf(i)) /\ WaterUseOf(i).v > 0

\* C28, amended: water_stress_flag is true only on rows whose
\* recharge_class is "Low"; without a water_use_m3y column it is false on
\* every row; with a column whose entries are all numbers or missing it is
\* true exactly when the class is "Low" and the water use is above 0; with
\* a column holding an entry that cannot be converted to a number it is
\* true exactly when the class is "Low", on every row.
C28_StressFlag ==
  RanOk =>
    \A i \in 1..Len(ret.rows) :
      LET low == ret.rows[i].recharge_class = "Low"
          flag == ret.rows[i].water_stress_flag
      IN  /\ flag => low
          /\ ~call.water_use.present => ~flag
          /\ (call.water_use.present /\ ~Unconvertible) => (flag <=> (low /\ WaterUseOf(i).v > 0))
          /\ Unconvertible => (flag <=> low)

\* a "Low" row without water use is flagged because another entry of the
\* column is text, next to runs where a positive water use decides
C28_Witness ==
  /\ RanOk /\ Unconvertible
  /\ \E i \in 1..Len(ret.rows) :
       /\ ret.rows[i].water_stress_flag
       /\ IsNaN(call.water_use.col[i])

---------------------------------------------------------------------------
(* Properties relating the recharge classifiers *)

PageClassified == pc = "done" /\ call.op = "classify_recharge"

\* C29: classify_recharge of the UI pages returns, for every threshold
\* table and every pair of inputs, missing ones included, the class the
\* core _classify_recharge returns.
C29_PagesAgreeWithCore ==
  PageClassified =>
    /\ ret.status = "ok"
    /\ ret.class = ClassifyRecharge(call.awc, call.slope, call.thr)

\* position of a class in the order Low < Medium < High
Rank(class) == IF class = "High" THEN 2 ELSE IF class = "Medium" THEN 1 ELSE 0

\* C30: _classify_recharge is monotone for every threshold table: for
\* numeric inputs, no larger capacity at the same slope and no smaller
\* slope at the same capacity gets a lower class than the one returned.
C30_Monotone ==
  (Classified /\ IsNum(call.awc) /\ IsNum(call.slope)) =>
    /\ \A a \in ClassInputs(call.thr) :
         (IsNum(a) /\ a.v >= call.awc.v) =>
           Rank(ClassifyRecharge(a, call.slope, call.thr)) >= Rank(ret.class)
    /\ \A s \in ClassInputs(call.thr) :
         (IsNum(s) /\ s.v <= call.slope.v) =>
           Rank(ClassifyRecharge(call.awc, s, call.thr)) >= Rank(ret.class)

\* a pair classified "Low" from which a larger capacity reaches "Medium"
\* and a larger capacity with a smaller slope reaches "High"
C30_Witness ==
  /\ Classified /\ IsNum(call.awc) /\ IsNum(call.slope) /\ ret.class = "Low"
  /\ \E a \in ClassInputs(call.thr), s \in ClassInputs(call.thr) :
       /\ IsNum(a) /\ a.v > call.awc.v /\ IsNum(s) /\ s.v < call.slope.v
       /\ ClassifyRecharge(a, call.slope, call.thr) = "Medium"
       /\ ClassifyRecharge(a, s, call.thr) = "High"

===========================================================================
